---- MODULE Spec2Model ----
(***************************************************************************)
(* Conversation bridge of che_voz: the session registry                    *)
(* (CallSessionService), the transcript recorder's end-of-call path        *)
(* (ConversationService), the websocket handlers /ws/conversation/{id} and *)
(* /ws, and the agent relay (ElevenLabsConversationHandler).               *)
(*                                                                         *)
(* One websocket connection is bridged at a time; connections follow one   *)
(* another.  Every action is the code that one asyncio task runs between   *)
(* two suspension points.  A caller or agent message is handed to a task   *)
(* that is suspended in the matching receive call.                         *)
(*                                                                         *)
(* Spec and FairSpec follow the handlers, the relay and the routes without *)
(* recording frames.  RelaySpec follows one relayed connection and records *)
(* the frames of both directions and the transcript.  BridgeSpec follows   *)
(* AudioBridge.bridge_streams on a telephony stream.  DirectorySpec        *)
(* follows the agent directory (ElevenLabsAgentFactory) and the session    *)
(* registry under register_agent, initialize_session and end_session.      *)
(* WireSpec is RelaySpec with the messages the relay does not know or      *)
(* cannot parse.  RegistrySpec follows the registry with initialize_session*)
(* split at its await and update_session_status on its own.  AgentsSpec    *)
(* follows the two agent tables, ElevenLabsAgentFactory and AgentMapper,   *)
(* under their registration calls.  DispatchSpec follows the branch        *)
(* selection of forward_from_elevenlabs on every kind of parsed message.   *)
(* ConnectionsSpec follows several conversation_websocket calls served     *)
(* side by side.  InitializeSpec follows initialize_session with its       *)
(* except branch.  TranscriptSpec is RelaySpec with terminate requests.    *)
(***************************************************************************)
EXTENDS Naturals, FiniteSets, Sequences, TLC

\* ---------------------------------------------------------------- bounds
MaxSessions == 2
MaxConnections == 2
\* frames recorded per connection and direction
MaxFrames == 2

Ids == 1..MaxSessions
\* a conversation id that no session was ever created with
UnknownId == MaxSessions + 1

\* ------------------------------------------------------------- vocabulary
\* message types the caller side can send on its websocket
CallerTypes == {"audio", "interrupt", "end", "end_call"}
\* events of the telephony media stream
TwilioEvents == {"connected", "start", "media", "stop"}
\* message kinds the agent socket can deliver
AgentTypes == {"conversation_initiation_metadata", "audio_event", "ping"}
TranscriptTypesUserOnly == {"user_transcript"}

\* the kinds that carry a transcript
TranscriptTypes == {"user_transcript", "agent_response"}

\* base64 text is a sequence of sextet values, Pad stands for "="
Pad == 64
\* "SG9sYQ==", the text b64encode gives for the four bytes of "Hola"
PayloadHola == <<18, 6, 61, 44, 24, 16, Pad, Pad>>
\* "SR==", which b64decode accepts although b64encode gives "SQ=="
PayloadLoose == <<18, 17, Pad, Pad>>
Payloads == {PayloadHola, PayloadLoose}

\* base64.b64encode
RECURSIVE B64Encode(_)
B64Encode(b) ==
  IF Len(b) = 0 THEN <<>>
  ELSE IF Len(b) = 1
  THEN <<b[1] \div 4, (b[1] % 4) * 16, Pad, Pad>>
  ELSE IF Len(b) = 2
  THEN <<b[1] \div 4, (b[1] % 4) * 16 + b[2] \div 16, (b[2] % 16) * 4, Pad>>
  ELSE <<b[1] \div 4, (b[1] % 4) * 16 + b[2] \div 16,
         (b[2] % 16) * 4 + b[3] \div 64, b[3] % 64>>
       \o B64Encode(SubSeq(b, 4, Len(b)))

\* base64.b64decode of padded text: the bits beyond the last whole byte
\* are dropped
RECURSIVE B64Decode(_)
B64Decode(s) ==
  IF Len(s) < 4 THEN <<>>
  ELSE IF s[3] = Pad
  THEN <<s[1] * 4 + s[2] \div 16>>
  ELSE IF s[4] = Pad
  THEN <<s[1] * 4 + s[2] \div 16, (s[2] % 16) * 16 + s[3] \div 4>>
  ELSE <<s[1] * 4 + s[2] \div 16, (s[2] % 16) * 16 + s[3] \div 4,
         (s[3] % 4) * 64 + s[4]>>
       \o B64Decode(SubSeq(s, 5, Len(s)))

\* messages of the caller side: audio carries base64 text in "data"
CallerFrames ==
  [type : {"audio"}, data : Payloads]
    \cup [type : CallerTypes \ {"audio"}, data : {<<>>}]

\* the stream identifier the telephony stream announces in its start event
StreamSid == "MZ1"

\* message.get("streamSid") of a connected event: the event as the
\* telephony service sends it has no such member, a peer may add one
ConnectedSids == {"None", StreamSid}

\* events of the telephony media stream: media carries a base64 payload
TwilioFrames ==
  [type : {"media"}, data : Payloads]
    \cup [type : TwilioEvents \ {"media"}, data : {<<>>}]

\* events of the agent socket: audio_base_64 of an audio event, the text
\* of a transcript event; either can be empty
AgentEvents ==
  [type : AgentTypes \ {"audio_event"}, data : {<<>>}, text : {""}]
    \cup [type : {"audio_event"}, data : {PayloadHola, <<>>}, text : {""}]
    \cup [type : {"user_transcript"}, data : {<<>>}, text : {"hola", ""}]
    \cup [type : {"agent_response"}, data : {<<>>}, text : {"che", ""}]

\* agent messages none of the branches of forward_from_elevenlabs takes:
\* a type it does not know, and "", which data.get("type", "") gives for
\* a message without a type
UnknownAgentTypes == {"vad_score", ""}

\* the agent socket's messages including those: the event of type "error"
\* stands for an object with an "error" member, its text for that member
WireAgentEvents ==
  AgentEvents
    \cup [type : UnknownAgentTypes, data : {<<>>}, text : {""}]
    \cup [type : {"error"}, data : {<<>>}, text : {"quota"}]

\* values of "type" in a parsed agent message; "" is what
\* data.get("type", "") gives when the member is missing
WireTypes ==
  {"conversation_initiation_metadata", "audio", "user_transcript",
   "agent_response", "ping", "vad_score", ""}

\* a parsed agent message as the dispatch sees it: its type and whether
\* it has an "audio_event" and an "error" member
WireMessages == [type : WireTypes, audio_event : BOOLEAN, error : BOOLEAN]

\* messages handed to the dispatch in one run
MaxWire == 2

\* caller messages forward_to_elevenlabs cannot handle: text that is not
\* JSON, an object without "type", an audio message without "data"
MalformedCaller == {"not_json", "no_type", "audio_no_data"}

\* fields declared by the pydantic model ConversationHistory; assigning an
\* attribute that is not a declared field raises ValueError
ConversationHistoryFieldsWithStatus ==
  {"conversation_id", "agent_id", "agent_name", "caller_phone", "caller_name",
   "start_time", "end_time", "language", "country_code", "messages",
   "metadata", "status"}

ConversationHistoryFields ==
  {"conversation_id", "agent_id", "agent_name", "caller_phone", "caller_name",
   "start_time", "end_time", "language", "country_code", "messages",
   "metadata"}

\* str.upper() on a region code: the ASCII letters are mapped to their
\* capitals, every other character is left alone
LowerCase == <<"a", "b", "c", "d", "e", "f", "g", "h", "i", "j", "k", "l", "m",
               "n", "o", "p", "q", "r", "s", "t", "u", "v", "w", "x", "y", "z">>
UpperCaseUnchanged == LowerCase

UpperCase == <<"A", "B", "C", "D", "E", "F", "G", "H", "I", "J", "K", "L", "M",
               "N", "O", "P", "Q", "R", "S", "T", "U", "V", "W", "X", "Y", "Z">>
UpperChar(c) ==
  IF \E i \in DOMAIN LowerCase : LowerCase[i] = c
  THEN UpperCase[CHOOSE i \in DOMAIN LowerCase : LowerCase[i] = c]
  ELSE c
Upper(code) == [i \in 1..Len(code) |-> UpperChar(code[i])]

DefaultCountryMX == <<"M", "X">>

\* ElevenLabsAgentFactory._default_country
DefaultCountry == <<"A", "R">>

\* the configurations _initialize_default_agents installs
DefaultAgents ==
  (<<"A", "R">> :>
     [agent_id |-> "agent_3601k52aw9jmej0a61svgk2hm0t1",
      name |-> "Agente Porteno", context |-> "argentino",
      language |-> "es-AR"]) @@
  (<<"A", "R", "_", "C", "B", "A">> :>
     [agent_id |-> "agent_4201k59pp9k7epq8t6pq5n79b9k1",
      name |-> "Agente Cordobes", context |-> "cordobes",
      language |-> "es-AR"]) @@
  (<<"M", "X">> :>
     [agent_id |-> "agent_3601k52b7a5nff29cgwj04h3m0xt",
      name |-> "Agente Mexicano", context |-> "mexicano",
      language |-> "es-MX"]) @@
  (<<"C", "O">> :>
     [agent_id |-> "agent_2201k52bqy0bff2ag591exhzjaxf",
      name |-> "Agente Colombiana", context |-> "colombiana",
      language |-> "es-CO"]) @@
  (<<"M", "E", "N", "D", "O", "C", "I", "N", "O">> :>
     [agent_id |-> "agent_7601k57zdzznesfrwpf8hfpemjvf",
      name |-> "Mendocino", context |-> "informational",
      language |-> "es-AR"])

\* region codes the directory is called with: spellings of a default
\* entry, of a second entry, and of a code that has no default entry
Codes == {<<"A", "R">>, <<"a", "r">>, <<"M", "X">>, <<"m", "x">>,
          <<"C", "L">>, <<"c", "l">>}

\* configurations register_agent is called with: a complete one, with the
\* optional api_key, and one that lacks language and context
Configs ==
  {[agent_id |-> "agent_custom", name |-> "Agente Custom",
    context |-> "custom", language |-> "pt-BR", api_key |-> "key_custom"],
   [agent_id |-> "agent_partial", name |-> "Agente Parcial"]}

\* a configuration that has every required key and None as its name
UntypedConfigs ==
  {[agent_id |-> "agent_untyped", name |-> "None", context |-> "untyped",
    language |-> "pt-BR"]}

\* register_agent: the fields a configuration must have
RequiredFieldsLax == {"agent_id", "name"}

RequiredFields == {"agent_id", "name", "language", "context"}

\* register_agent checks the required fields in this order and names the
\* first one that is missing
required_fields == <<"agent_id", "name", "language", "context">>

\* the order in which _initialize_default_agents inserts the keys
DefaultKeys ==
  <<(<<"A", "R">>), (<<"A", "R", "_", "C", "B", "A">>), (<<"M", "X">>),
    (<<"C", "O">>), (<<"M", "E", "N", "D", "O", "C", "I", "N", "O">>)>>

\* agent_mapping.AGENT_MAP, in the order of the literal
AGENT_MAP ==
  <<[code |-> <<"M", "X">>,
     config |-> [agent_id |-> "agent_mexico_123", name |-> "Agente Mexico",
                 context |-> "mexicano", language |-> "es-MX"]],
    [code |-> <<"A", "R">>,
     config |-> [agent_id |-> "agent_argentina_456",
                 name |-> "Agente Argentina",
                 context |-> "argentino", language |-> "es-AR"]],
    [code |-> <<"E", "S">>,
     config |-> [agent_id |-> "agent_spain_789", name |-> "Agente Espana",
                 context |-> "espanol", language |-> "es-ES"]],
    [code |-> <<"U", "S">>,
     config |-> [agent_id |-> "agent_usa_101", name |-> "US Agent",
                 context |-> "american", language |-> "en-US"]],
    [code |-> <<"G", "B">>,
     config |-> [agent_id |-> "agent_uk_102", name |-> "UK Agent",
                 context |-> "british", language |-> "en-GB"]],
    [code |-> <<"B", "R">>,
     config |-> [agent_id |-> "agent_brazil_103", name |-> "Agente Brasil",
                 context |-> "brasileiro", language |-> "pt-BR"]]>>

\* agent_mapping.DEFAULT_AGENT: the US entry of the literal
DEFAULT_AGENT == AGENT_MAP[4].config

\* the characters of the language tags that occur
Characters ==
  ("es-AR" :> <<"e", "s", "-", "A", "R">>) @@
  ("es-ar" :> <<"e", "s", "-", "a", "r">>) @@
  ("es-MX" :> <<"e", "s", "-", "M", "X">>) @@
  ("ES-mx" :> <<"E", "S", "-", "m", "x">>) @@
  ("es-CO" :> <<"e", "s", "-", "C", "O">>) @@
  ("es-ES" :> <<"e", "s", "-", "E", "S">>) @@
  ("en-US" :> <<"e", "n", "-", "U", "S">>) @@
  ("en-GB" :> <<"e", "n", "-", "G", "B">>) @@
  ("pt-BR" :> <<"p", "t", "-", "B", "R">>) @@
  ("PT-br" :> <<"P", "T", "-", "b", "r">>) @@
  ("fr-FR" :> <<"f", "r", "-", "F", "R">>)

\* language tags the lookups are called with: spellings of default
\* entries, of the registered configuration, and a tag no entry has
Tags == {"es-AR", "es-ar", "ES-mx", "pt-BR", "PT-br", "fr-FR"}

\* str.lower() on a language tag
LowerChar(c) ==
  IF \E i \in DOMAIN UpperCase : UpperCase[i] = c
  THEN LowerCase[CHOOSE i \in DOMAIN UpperCase : UpperCase[i] = c]
  ELSE c
Lower(tag) == [i \in 1..Len(Characters[tag]) |-> LowerChar(Characters[tag][i])]

\* the fields of a CallSession that come from the agent; no session
NoAgent == [agent_id |-> "", agent_name |-> "", country_code |-> <<>>,
            language |-> ""]

VARIABLES
  sessions,           \* CallSessionService._active_sessions: id -> status | "absent"
  sessionAgent,       \* CallSession agent_id, agent_name, country_code, language per id
  cache,              \* ConversationService._active_conversations: id -> "none" | "open" | "endtime"
  repo,               \* persisted ConversationHistory file: id -> "none" | "open" | "ended"
  nextId,             \* next fresh conversation id (uuid4)
  conns,              \* websocket connections accepted so far
  kind,               \* endpoint of the current connection
  hpc,                \* position of the websocket handler
  cid,                \* the handler's conversation_id (0: None)
  client_state,       \* WebSocket.client_state
  application_state,  \* WebSocket.application_state
  closeCalls,         \* websocket.close() calls on the caller socket
  callerGone,         \* the caller has dropped the connection
  sent,               \* message types sent to the caller side
  conversation,       \* the handler holds an ElevenLabsConversationHandler
  is_active,          \* ElevenLabsConversationHandler.is_active
  elevenlabs_ws,      \* "none" | "open" | "closed"
  agentGone,          \* the agent service has closed its socket
  agentCloses,        \* elevenlabs_ws.close() calls
  tpc,                \* conversation_task: ElevenLabsConversationHandler.start
  fpc,                \* caller -> agent direction
  rpc,                \* agent -> caller direction
  readySeen,          \* the agent socket produced conversation_initiation_metadata
  lateForward,        \* a direction forwarded a frame after the other had ended
  endCalls,           \* end_session calls made by the handler
  endDone,            \* end_session calls of the handler that ran to completion
  stopSeen,           \* the caller's end signal arrived while the agent relay was reading
  agentClosedActive,  \* the agent socket closed while both directions were running
  legError,           \* a read or a send on one of the sockets raised during the call
  agents,             \* ElevenLabsAgentFactory._agents: key -> config
  lastReg,            \* the last register_agent call, with its outcome
  agentKeys,          \* keys of ElevenLabsAgentFactory._agents in insertion order
  agent_map,          \* AgentMapper.agent_map: the entries in insertion order
  wireIn,             \* parsed agent messages handed to the dispatch of forward_from_elevenlabs
  events,             \* per message of wireIn, the branches of the dispatch that ran
  silenceSent,        \* initial silence frames sent on the agent socket of the connection
  bridges,            \* per websocket connection to /ws/conversation/{id}: its id and position
  stream_sid,         \* TwilioAudioInterface.stream_sid ("None": unset)
  streamOut,          \* streamSid of each media event sent to the telephony stream
  callerIn,           \* caller frames received while the relay was active
  agentOut,           \* messages sent on the agent socket after the initial silence
  agentIn,            \* events received from the agent socket
  callerOut,          \* messages sent to the caller side by the relay
  messages,           \* ConversationHistory.messages per id
  saved               \* messages of the persisted ConversationHistory per id

svc == <<sessions, sessionAgent, cache, repo, nextId>>
sock == <<client_state, application_state, closeCalls, callerGone, sent>>
cv == <<conversation, is_active, elevenlabs_ws, agentGone, agentCloses>>
tasks == <<tpc, fpc, rpc>>
hist == <<readySeen, lateForward, stopSeen, agentClosedActive, legError>>
ends == <<endCalls, endDone>>
auxv == <<wireIn, events>>
twv == <<stream_sid, streamOut>>
obsv == <<silenceSent, bridges, twv>>
dirv == <<agents, lastReg, agentKeys, agent_map, auxv, obsv>>
logv == <<callerIn, agentOut, agentIn, callerOut, messages, saved>>
vars == <<sessions, sessionAgent, agents, lastReg, agentKeys, agent_map,
          wireIn, events, silenceSent, bridges, stream_sid, streamOut,
          callerIn, agentOut,
          agentIn, callerOut, messages, saved, cache, repo, nextId, conns, kind, hpc, cid, client_state,
          application_state, closeCalls, callerGone, sent, conversation,
          is_active, elevenlabs_ws, agentGone, agentCloses, tpc, fpc, rpc,
          readySeen, lateForward, endCalls, endDone, stopSeen,
          agentClosedActive, legError>>

\* the websocket connections the server can hold at once
Conns == 1..MaxConnections

\* a connection slot no websocket has used
NoBridge == [cid |-> 0, pc |-> "none"]

HandlerExited == hpc \in {"returned", "raised"}
TaskEnded(p) == p \in {"none", "done", "failed", "cancelled"}
Idle == (kind = "none" \/ HandlerExited)
        /\ TaskEnded(tpc) /\ TaskEnded(fpc) /\ TaskEnded(rpc)

\* the connection is bridged by ElevenLabsConversationHandler.start
Relay == kind \in {"conv", "simple"}

\* send_json on the caller socket succeeds
CanSend == application_state = "connected" /\ client_state = "connected"

\* send on the agent socket succeeds
AgentWritable == elevenlabs_ws = "open" /\ ~agentGone

Init ==
  /\ sessions = [i \in Ids |-> "absent"]
  /\ sessionAgent = [i \in Ids |-> NoAgent]
  /\ agents = DefaultAgents
  /\ lastReg = {}
  /\ agentKeys = DefaultKeys
  /\ agent_map = AGENT_MAP
  /\ wireIn = <<>>
  /\ events = <<>>
  /\ silenceSent = 0
  /\ bridges = [c \in Conns |-> NoBridge]
  /\ stream_sid = "None"
  /\ streamOut = <<>>
  /\ callerIn = <<>>
  /\ agentOut = <<>>
  /\ agentIn = <<>>
  /\ callerOut = <<>>
  /\ messages = [i \in Ids |-> <<>>]
  /\ saved = [i \in Ids |-> <<>>]
  /\ cache = [i \in Ids |-> "none"]
  /\ repo = [i \in Ids |-> "none"]
  /\ nextId = 1
  /\ conns = 0
  /\ kind = "none"
  /\ hpc = "none"
  /\ cid = 0
  /\ client_state = "connected"
  /\ application_state = "connected"
  /\ closeCalls = 0
  /\ callerGone = FALSE
  /\ sent = {}
  /\ conversation = FALSE
  /\ is_active = FALSE
  /\ elevenlabs_ws = "none"
  /\ agentGone = FALSE
  /\ agentCloses = 0
  /\ tpc = "none"
  /\ fpc = "none"
  /\ rpc = "none"
  /\ readySeen = FALSE
  /\ lateForward = FALSE
  /\ endCalls = 0
  /\ endDone = 0
  /\ stopSeen = FALSE
  /\ agentClosedActive = FALSE
  /\ legError = FALSE

\* ------------------------------------------- ElevenLabsAgentFactory
\* create_agent: the configuration under country_code.upper(), or the
\* default country's; the Agent built from it, or KeyError
CreateAgent(code) ==
  LET up == Upper(code)
      key == IF up \in DOMAIN agents THEN up ELSE DefaultCountry
  IN  IF key \notin DOMAIN agents
         \/ ~({"agent_id", "name", "language", "context"}
                \subseteq DOMAIN agents[key])
      THEN [error |-> "KeyError"]
      ELSE [agent_id |-> agents[key].agent_id,
            name |-> agents[key].name,
            language |-> agents[key].language,
            context |-> agents[key].context,
            country_code |-> key,
            api_key |-> IF "api_key" \in DOMAIN agents[key]
                        THEN agents[key].api_key ELSE "None"]

\* register_agent: ValueError naming the first required field that is
\* missing, else the configuration is stored under country_code.upper();
\* a new key goes to the end of the dictionary, a key that is already
\* there keeps its place
RegisterAccepts(config) == RequiredFields \subseteq DOMAIN config

MissingField(config) ==
  IF \A i \in DOMAIN required_fields : required_fields[i] \in DOMAIN config
  THEN "none"
  ELSE required_fields[
         CHOOSE i \in DOMAIN required_fields :
           /\ required_fields[i] \notin DOMAIN config
           /\ \A j \in 1..(i - 1) : required_fields[j] \in DOMAIN config]

\* register_agent when the sessions of the region follow the entry
RegisterAgentLive(code, config) ==
  /\ lastReg' = {[code |-> code, config |-> config,
                  accepted |-> RegisterAccepts(config),
                  error |-> MissingField(config)]}
  /\ agents' = IF RegisterAccepts(config)
               THEN [k \in DOMAIN agents \cup {Upper(code)} |->
                       IF k = Upper(code) THEN config ELSE agents[k]]
               ELSE agents
  /\ agentKeys' = IF RegisterAccepts(config) /\ Upper(code) \notin DOMAIN agents
                  THEN Append(agentKeys, Upper(code))
                  ELSE agentKeys
  /\ sessionAgent' = [i \in Ids |->
       IF /\ RegisterAccepts(config)
          /\ sessions[i] # "absent"
          /\ Upper(sessionAgent[i].country_code) = Upper(code)
       THEN [sessionAgent[i] EXCEPT !.agent_id = config.agent_id,
                                    !.agent_name = config.name,
                                    !.language = config.language]
       ELSE sessionAgent[i]]
  /\ UNCHANGED <<sessions, cache, repo, nextId, conns, kind, hpc, cid, sock,
                 cv, tasks, hist, ends, logv, agent_map, auxv, obsv>>

RegisterAgent(code, config) ==
  /\ lastReg' = {[code |-> code, config |-> config,
                  accepted |-> RegisterAccepts(config),
                  error |-> MissingField(config)]}
  /\ agents' = IF RegisterAccepts(config)
               THEN [k \in DOMAIN agents \cup {Upper(code)} |->
                       IF k = Upper(code) THEN config ELSE agents[k]]
               ELSE agents
  /\ agentKeys' = IF RegisterAccepts(config) /\ Upper(code) \notin DOMAIN agents
                  THEN Append(agentKeys, Upper(code))
                  ELSE agentKeys
  /\ UNCHANGED <<svc, conns, kind, hpc, cid, sock, cv, tasks, hist, ends,
                 logv, agent_map, auxv, obsv>>

\* the value a lookup returns for None
Absent == [absent |-> TRUE]

\* get_agent_by_language: the dictionary is walked in insertion order;
\* the first configuration whose language equals the tag, both in lower
\* case, is passed to create_agent; None when the walk ends
LanguageHit(config, tag) ==
  "language" \in DOMAIN config /\ Lower(config.language) = Lower(tag)

GetAgentByLanguage(tag) ==
  LET stops == {i \in DOMAIN agentKeys :
                  \/ "language" \notin DOMAIN agents[agentKeys[i]]
                  \/ LanguageHit(agents[agentKeys[i]], tag)}
      first == CHOOSE i \in stops : \A j \in stops : i <= j
  IN  IF stops = {} THEN Absent
      ELSE IF "language" \notin DOMAIN agents[agentKeys[first]]
           THEN [error |-> "KeyError"]
           ELSE CreateAgent(agentKeys[first])

\* ---------------------------------------------------------- AgentMapper
\* get_agent_by_language: the first entry whose language equals the tag,
\* both in lower case, else DEFAULT_AGENT; an entry without a language
\* met on the way raises KeyError
MapperGetAgentByLanguage(tag) ==
  LET stops == {i \in DOMAIN agent_map :
                  \/ "language" \notin DOMAIN agent_map[i].config
                  \/ LanguageHit(agent_map[i].config, tag)}
      first == CHOOSE i \in stops : \A j \in stops : i <= j
  IN  IF stops = {} THEN DEFAULT_AGENT
      ELSE IF "language" \notin DOMAIN agent_map[first].config
           THEN [error |-> "KeyError"]
           ELSE agent_map[first].config

\* add_custom_agent: the configuration is stored under
\* country_code.upper(), whatever fields it has
AddCustomAgent(code, config) ==
  /\ agent_map' =
       IF \E i \in DOMAIN agent_map : agent_map[i].code = Upper(code)
       THEN [i \in DOMAIN agent_map |->
               IF agent_map[i].code = Upper(code)
               THEN [code |-> Upper(code), config |-> config]
               ELSE agent_map[i]]
       ELSE Append(agent_map, [code |-> Upper(code), config |-> config])
  /\ UNCHANGED <<svc, conns, kind, hpc, cid, sock, cv, tasks, hist, ends,
                 logv, agents, lastReg, agentKeys, auxv, obsv>>

\* ------------------------------------------------ ConversationService
\* end_conversation finds the history in the cache or in the repository
ConversationFound(id) == cache[id] # "none" \/ repo[id] # "none"

\* end_conversation: after end_time is set, conversation.status = "ended"
\* is an assignment to the pydantic model
EndConversationRaises(id) ==
  ConversationFound(id) /\ "status" \notin ConversationHistoryFields

CacheAfterEnd(id) ==
  IF cache[id] = "none" THEN cache
  ELSE IF EndConversationRaises(id) THEN [cache EXCEPT ![id] = "endtime"]
  ELSE [cache EXCEPT ![id] = "none"]

RepoAfterEnd(id) ==
  IF ConversationFound(id) /\ ~EndConversationRaises(id)
  THEN [repo EXCEPT ![id] = "ended"] ELSE repo

\* ------------------------------------------------ CallSessionService
Registered(id) == id \in Ids /\ sessions[id] # "absent"

EndSessionRaises(id) == Registered(id) /\ EndConversationRaises(id)

SessionsAfterEnd(id) ==
  IF ~Registered(id) THEN sessions
  ELSE IF EndConversationRaises(id) THEN [sessions EXCEPT ![id] = "ended"]
  ELSE [sessions EXCEPT ![id] = "absent"]

\* the effect of one end_session(id) call on the services
EndSession(id) ==
  /\ sessions' = SessionsAfterEnd(id)
  /\ sessionAgent' = [i \in Ids |->
       IF SessionsAfterEnd(id)[i] = "absent" THEN NoAgent ELSE sessionAgent[i]]
  /\ cache' = IF Registered(id) THEN CacheAfterEnd(id) ELSE cache
  /\ repo' = IF Registered(id) THEN RepoAfterEnd(id) ELSE repo
  /\ nextId' = nextId

GetActiveSessionsAll == {i \in Ids : Registered(i)}

\* get_active_sessions: the registered sessions whose status is active
GetActiveSessions == {i \in Ids : Registered(i) /\ sessions[i] = "active"}

\* GET /health: the number of sessions get_active_sessions returns
HealthCheck ==
  [status |-> "healthy",
   active_conversations |-> Cardinality(GetActiveSessions)]

\* initialize_session: the agent of the country code, a fresh id, the
\* session registered, the history started
InitializeSession(code) ==
  /\ nextId \in Ids
  /\ "agent_id" \in DOMAIN CreateAgent(code)
  /\ sessions' = [sessions EXCEPT ![nextId] = "initialized"]
  /\ sessionAgent' = [sessionAgent EXCEPT ![nextId] =
       [agent_id |-> CreateAgent(code).agent_id,
        agent_name |-> CreateAgent(code).name,
        country_code |-> code,
        language |-> CreateAgent(code).language]]
  /\ cache' = [cache EXCEPT ![nextId] = "open"]
  /\ repo' = [repo EXCEPT ![nextId] = "open"]
  /\ nextId' = nextId + 1

\* start_conversation builds the ConversationHistory from the session's
\* dictionary: agent_id, agent_name and language are declared str, and
\* pydantic raises ValidationError for None
StartConversationRaises(agent) ==
  "None" \in {agent.agent_id, agent.name, agent.language}

\* the exception one initialize_session(code) call ends with, if any
InitializeRaises(code) ==
  IF "agent_id" \notin DOMAIN CreateAgent(code) THEN "agent"
  ELSE IF StartConversationRaises(CreateAgent(code)) THEN "history"
  ELSE "none"

\* initialize_session with its except branch: an exception of the agent
\* lookup leaves the services as they were; an exception of
\* start_conversation arrives after the session was put in the registry
\* and is logged and raised again
InitializeCall(code) ==
  /\ nextId \in Ids
  /\ IF InitializeRaises(code) = "agent"
     THEN UNCHANGED svc
     ELSE IF InitializeRaises(code) = "history"
     THEN /\ sessions' = [sessions EXCEPT ![nextId] = "initialized"]
          /\ sessionAgent' = [sessionAgent EXCEPT ![nextId] =
               [agent_id |-> CreateAgent(code).agent_id,
                agent_name |-> CreateAgent(code).name,
                country_code |-> code,
                language |-> CreateAgent(code).language]]
          /\ nextId' = nextId + 1
          /\ UNCHANGED <<cache, repo>>
     ELSE InitializeSession(code)
  /\ UNCHANGED <<conns, kind, hpc, cid, sock, cv, tasks, hist, ends, dirv,
                 logv>>

\* initialize_session up to the await of the repository's save inside
\* start_conversation: the session is in the registry, the history in the
\* cache, the file not yet written
InitializeBegin(code) ==
  /\ nextId \in Ids
  /\ "agent_id" \in DOMAIN CreateAgent(code)
  /\ sessions' = [sessions EXCEPT ![nextId] = "initialized"]
  /\ sessionAgent' = [sessionAgent EXCEPT ![nextId] =
       [agent_id |-> CreateAgent(code).agent_id,
        agent_name |-> CreateAgent(code).name,
        country_code |-> code,
        language |-> CreateAgent(code).language]]
  /\ cache' = [cache EXCEPT ![nextId] = "open"]
  /\ nextId' = nextId + 1
  /\ UNCHANGED <<repo, conns, kind, hpc, cid, sock, cv, tasks, hist, ends,
                 dirv, logv>>

\* the save of that initialize_session call is done and the call returns
InitializeEnd(id) ==
  /\ id \in Ids
  /\ cache[id] # "none" /\ repo[id] = "none"
  /\ repo' = [repo EXCEPT ![id] = "open"]
  /\ UNCHANGED <<sessions, sessionAgent, cache, nextId, conns, kind, hpc,
                 cid, sock, cv, tasks, hist, ends, dirv, logv>>

SessionsAfterUpdateAll(id, st) ==
  IF ~Registered(id) THEN sessions
  ELSE [i \in Ids |-> IF Registered(i) THEN st ELSE sessions[i]]

\* update_session_status: the status of the session, if it is registered
SessionsAfterUpdate(id, st) ==
  IF ~Registered(id) THEN sessions ELSE [sessions EXCEPT ![id] = st]

UpdateSessionStatus(id, st) ==
  /\ sessions' = SessionsAfterUpdate(id, st)
  /\ UNCHANGED <<sessionAgent, cache, repo, nextId, conns, kind, hpc, cid,
                 sock, cv, tasks, hist, ends, dirv, logv>>

\* ---------------------------------------------------- VoiceCallService
\* the key ElevenLabsConversationHandler falls back to when it is given
\* none: settings.elevenlabs_api_key
DefaultApiKey == "settings.elevenlabs_api_key"

\* create_conversation: the handler gets the agent id stored in the
\* session and the api_key of the agent the directory now returns for the
\* session's country code; __init__ replaces a missing key by the default
CreateConversation(id) ==
  [agent_id |-> sessionAgent[id].agent_id,
   api_key |->
     IF CreateAgent(sessionAgent[id].country_code).api_key = "None"
     THEN DefaultApiKey
     ELSE CreateAgent(sessionAgent[id].country_code).api_key]

\* ------------------------------------------------------- HTTP routes
\* POST /conversation/init
InitializeConversation(code) ==
  /\ InitializeSession(code)
  /\ UNCHANGED <<conns, kind, hpc, cid, sock, cv, tasks, hist, ends, dirv,
                 logv>>

\* DELETE /conversation/{id}
Terminate(id) ==
  /\ Registered(id)
  /\ EndSession(id)
  /\ UNCHANGED <<conns, kind, hpc, cid, sock, cv, tasks, hist, ends, dirv,
                 logv>>

\* GET /conversation/{id}/status: 404 when get_session finds nothing, else
\* the session's status, agent name and language
StatusResponse(id) ==
  IF ~Registered(id) THEN [code |-> "404"]
  ELSE [code |-> "200", status |-> sessions[id],
        agent_name |-> sessionAgent[id].agent_name,
        language |-> sessionAgent[id].language]

\* the answer of DELETE /conversation/{id}: 404 when get_session finds
\* nothing; else end_session is awaited, and what it raises is not caught
\* by the route
TerminateResponse(id) ==
  IF ~Registered(id) THEN [code |-> "404"]
  ELSE IF EndSessionRaises(id) THEN [code |-> "500"]
  ELSE [code |-> "200", message |-> "Conversation ended"]

\* --------------------------------------------- websocket handlers
\* a new connection is accepted: websocket.accept(), conversation = None
Accept(k) ==
  /\ Idle
  /\ conns < MaxConnections
  /\ conns' = conns + 1
  /\ kind' = k
  /\ client_state' = "connected"
  /\ callerGone' = FALSE
  /\ is_active' = FALSE
  /\ elevenlabs_ws' = "none"
  /\ agentGone' = FALSE
  /\ agentCloses' = 0
  /\ fpc' = "none"
  /\ rpc' = "none"
  /\ readySeen' = FALSE
  /\ lateForward' = FALSE
  /\ endCalls' = 0
  /\ endDone' = 0
  /\ stopSeen' = FALSE
  /\ agentClosedActive' = FALSE
  /\ legError' = FALSE
  /\ callerIn' = <<>>
  /\ agentOut' = <<>>
  /\ agentIn' = <<>>
  /\ callerOut' = <<>>
  /\ silenceSent' = 0
  /\ stream_sid' = "None"
  /\ streamOut' = <<>>
  /\ UNCHANGED <<agents, lastReg, agentKeys, agent_map, auxv, bridges,
                 messages, saved>>

\* the steps of one conversation_websocket call for connection c, several
\* calls running side by side: accept to the sleep (an unregistered id is
\* answered with the error notice and the handler returns through finally)
ConnOpen(c, id) ==
  /\ bridges[c].pc = "none"
  /\ id < nextId \/ id = UnknownId
  /\ IF ~Registered(id)
     THEN /\ bridges' = [bridges EXCEPT ![c] = [cid |-> id, pc |-> "done"]]
          /\ UNCHANGED svc
     ELSE /\ bridges' = [bridges EXCEPT ![c] = [cid |-> id, pc |-> "sleep"]]
          /\ sessions' = SessionsAfterUpdate(id, "active")
          /\ UNCHANGED <<sessionAgent, cache, repo, nextId>>
  /\ UNCHANGED <<conns, kind, hpc, cid, sock, cv, tasks, hist, ends, logv,
                 agents, lastReg, agentKeys, agent_map, auxv, silenceSent,
                 twv>>

\* conversation.start() of connection c: the agent socket is connected
ConnAgent(c) ==
  /\ bridges[c].pc = "sleep"
  /\ bridges' = [bridges EXCEPT ![c].pc = "open"]
  /\ UNCHANGED <<svc, conns, kind, hpc, cid, sock, cv, tasks, hist, ends,
                 logv, agents, lastReg, agentKeys, agent_map, auxv,
                 silenceSent, twv>>

\* the finally block of connection c: end_conversation closes its agent
\* socket, end_session(conversation_id)
ConnTeardown(c) ==
  /\ bridges[c].pc \in {"sleep", "open"}
  /\ EndSession(bridges[c].cid)
  /\ bridges' = [bridges EXCEPT ![c].pc = "done"]
  /\ UNCHANGED <<conns, kind, hpc, cid, sock, cv, tasks, hist, ends, logv,
                 agents, lastReg, agentKeys, agent_map, auxv, silenceSent,
                 twv>>

\* /ws/conversation/{id}: accept, get_session, update_session_status,
\* create_conversation, create_task(conversation.start()), sleep
ConvConnect(id) ==
  /\ id < nextId \/ id = UnknownId
  /\ Accept("conv")
  /\ cid' = id
  /\ IF ~Registered(id)
     THEN \* error notice, websocket.close(), return
          /\ sent' = {"error"}
          /\ hpc' = "finally"
          /\ conversation' = FALSE
          /\ tpc' = "none"
          /\ UNCHANGED svc
          /\ application_state' = "closed"
          /\ closeCalls' = 1
     ELSE /\ sent' = {}
          /\ application_state' = "connected"
          /\ closeCalls' = 0
          /\ sessions' = SessionsAfterUpdate(id, "active")
          /\ UNCHANGED <<sessionAgent, cache, repo, nextId>>
          /\ conversation' = TRUE
          /\ tpc' = "signed_url"
          /\ hpc' = "sleep"

\* after the sleep: the ready signal, then await conversation_task
ConvReady ==
  /\ kind = "conv" /\ hpc = "sleep"
  /\ IF CanSend
     THEN sent' = sent \cup {"ready"} /\ hpc' = "await_task"
     ELSE \* send_json raises in the try, in the inner and in the outer handler
          sent' = sent /\ hpc' = "finally_exc"
  /\ UNCHANGED <<svc, conns, kind, cid, client_state, application_state,
                 closeCalls, callerGone, cv, tasks, hist, ends>>
  /\ UNCHANGED <<dirv, logv>>

\* await conversation_task returns or raises what start() raised
ConvTaskDone ==
  /\ kind = "conv" /\ hpc = "await_task"
  /\ tpc \in {"done", "failed"}
  /\ IF tpc = "done" THEN sent' = sent /\ hpc' = "finally"
     ELSE IF CanSend THEN sent' = sent \cup {"error"} /\ hpc' = "finally"
     ELSE sent' = sent /\ hpc' = "finally_exc"
  /\ UNCHANGED <<svc, conns, kind, cid, client_state, application_state,
                 closeCalls, callerGone, cv, tasks, hist, ends>>
  /\ UNCHANGED <<dirv, logv>>

\* the finally block of both handlers: end the agent conversation,
\* end_session, close the caller socket (guarded, when guarded is TRUE,
\* by client_state != DISCONNECTED)
Finally(guarded) ==
  /\ hpc \in {"finally", "finally_exc"}
  /\ is_active' = IF conversation THEN FALSE ELSE is_active
  /\ IF conversation /\ elevenlabs_ws # "none"
     THEN elevenlabs_ws' = "closed" /\ agentCloses' = agentCloses + 1
     ELSE UNCHANGED <<elevenlabs_ws, agentCloses>>
  /\ IF cid # 0
     THEN /\ EndSession(cid)
          /\ endCalls' = endCalls + 1
          /\ endDone' = IF EndSessionRaises(cid) THEN endDone ELSE endDone + 1
     ELSE UNCHANGED <<svc, ends>>
  /\ IF cid # 0 /\ EndSessionRaises(cid)
     THEN hpc' = "raised" /\ UNCHANGED <<application_state, closeCalls>>
     ELSE IF guarded /\ client_state = "disconnected"
     THEN /\ hpc' = IF hpc = "finally" THEN "returned" ELSE "raised"
          /\ UNCHANGED <<application_state, closeCalls>>
     ELSE /\ closeCalls' = closeCalls + 1
          /\ application_state' = "closed"
          \* close() after a close message was sent raises RuntimeError
          /\ hpc' = IF hpc = "finally" /\ application_state = "connected"
                    THEN "returned" ELSE "raised"
  /\ UNCHANGED <<conns, kind, cid, client_state, callerGone, sent,
                 conversation, agentGone, tasks, hist, dirv, logv>>

ConvFinally == kind = "conv" /\ Finally(TRUE)

\* /ws: accept, then the receive loop
SimpleConnect ==
  /\ Accept("simple")
  /\ cid' = 0
  /\ hpc' = "loop"
  /\ sent' = {}
  /\ application_state' = "connected"
  /\ closeCalls' = 0
  /\ conversation' = FALSE
  /\ tpc' = "none"
  /\ UNCHANGED svc

\* /ws loop, "start_call": initialize_session, create_conversation,
\* create_task(conversation.start()), sleep.  The dialer sends start_call
\* once per connection.
SimpleStartCall(code) ==
  /\ kind = "simple" /\ hpc = "loop"
  /\ ~callerGone /\ ~conversation
  /\ InitializeSession(code)
  /\ cid' = nextId
  /\ conversation' = TRUE
  /\ tpc' = "signed_url"
  /\ hpc' = "sleep"
  /\ UNCHANGED <<conns, kind, sock, is_active, elevenlabs_ws, agentGone,
                 agentCloses, fpc, rpc, hist, ends, dirv, logv>>

\* /ws after the sleep: the call_started signal, back to the loop
SimpleStarted ==
  /\ kind = "simple" /\ hpc = "sleep"
  /\ IF CanSend
     THEN sent' = sent \cup {"call_started"} /\ hpc' = "loop"
     ELSE sent' = sent /\ hpc' = "finally_exc"
  /\ UNCHANGED <<svc, conns, kind, cid, client_state, application_state,
                 closeCalls, callerGone, cv, tasks, hist, ends>>
  /\ UNCHANGED <<dirv, logv>>

\* /ws loop, a message read by the handler: audio goes to the legacy
\* send_audio (pass), interrupt calls conversation.interrupt(), which
\* ElevenLabsConversationHandler does not define, end_call breaks
SimpleCaller(t) ==
  /\ kind = "simple" /\ hpc = "loop"
  /\ ~callerGone
  /\ IF t = "interrupt" /\ conversation
     THEN /\ hpc' = IF CanSend THEN "finally" ELSE "finally_exc"
          /\ sent' = IF CanSend THEN sent \cup {"error"} ELSE sent
          /\ UNCHANGED stopSeen
     ELSE IF t = "end_call"
     THEN /\ hpc' = "finally"
          /\ stopSeen' = (stopSeen \/ rpc = "recv")
          /\ UNCHANGED sent
     ELSE UNCHANGED <<hpc, sent, stopSeen>>
  /\ UNCHANGED <<svc, conns, kind, cid, client_state, application_state,
                 closeCalls, callerGone, cv, tasks, readySeen, lateForward,
                 agentClosedActive, legError, ends>>
  /\ UNCHANGED dirv

\* /ws loop, the caller is gone: receive_json raises, the except block's
\* send_json raises as well
SimpleDisconnect ==
  /\ kind = "simple" /\ hpc = "loop"
  /\ callerGone
  /\ client_state' = "disconnected"
  /\ hpc' = "finally_exc"
  /\ legError' = (legError \/ (conversation /\ is_active))
  /\ UNCHANGED <<svc, conns, kind, cid, application_state, closeCalls,
                 callerGone, sent, cv, tasks, readySeen, lateForward, stopSeen,
                 agentClosedActive, ends>>
  /\ UNCHANGED <<dirv, logv>>

SimpleFinally == kind = "simple" /\ Finally(FALSE)

\* ------------------------------- /media-stream and AudioBridge
\* /media-stream: accept, then iterate over the stream's events
MediaConnect ==
  /\ Accept("media")
  /\ cid' = 0
  /\ hpc' = "loop"
  /\ sent' = {}
  /\ application_state' = "connected"
  /\ closeCalls' = 0
  /\ conversation' = FALSE
  /\ tpc' = "none"
  /\ UNCHANGED svc

\* /media-stream, one event read by the handler's own loop.  "start": the
\* call context is looked up (ctx: found); without it the loop breaks,
\* with it create_conversation reads audio_interface.ws, which
\* TwilioAudioInterface does not define: the AttributeError is logged by
\* the except block and bridge_streams is not reached.  "stop": break
MediaEvent(e, ctx) ==
  /\ kind = "media" /\ hpc = "loop"
  /\ ~callerGone
  /\ hpc' = IF e \in {"start", "stop"} THEN "finally" ELSE hpc
  /\ UNCHANGED <<svc, conns, kind, cid, sock, cv, tasks, hist, ends>>
  /\ UNCHANGED <<dirv, logv>>

\* /media-stream: the caller is gone, the iteration ends
MediaDisconnect ==
  /\ kind = "media" /\ hpc = "loop"
  /\ callerGone
  /\ client_state' = "disconnected"
  /\ hpc' = "finally"
  /\ UNCHANGED <<svc, conns, kind, cid, application_state, closeCalls,
                 callerGone, sent, cv, tasks, hist, ends>>
  /\ UNCHANGED <<dirv, logv>>

\* bridge_streams, twilio_to_elevenlabs: one event of the stream; the
\* connected event sets stream_sid to its streamSid member, None when the
\* event has none
T2E(e) ==
  /\ kind = "media" /\ fpc = "recv"
  /\ ~callerGone
  /\ fpc' = IF e = "stop" THEN "done" ELSE "recv"
  /\ lateForward' = (lateForward \/ (e = "media" /\ rpc = "done"))
  /\ IF e = "connected"
     THEN \E sid \in ConnectedSids : stream_sid' = sid
     ELSE UNCHANGED stream_sid
  /\ UNCHANGED <<svc, conns, kind, hpc, cid, sock, cv, tpc, rpc, readySeen,
                 stopSeen, agentClosedActive, legError, ends>>
  /\ UNCHANGED <<agents, lastReg, agentKeys, agent_map, auxv, silenceSent,
                 bridges, streamOut>>

\* bridge_streams, twilio_to_elevenlabs: receive_text raises, the
\* generator logs the error and ends
T2EDisconnect ==
  /\ kind = "media" /\ fpc = "recv"
  /\ callerGone
  /\ client_state' = "disconnected"
  /\ fpc' = "done"
  /\ legError' = TRUE
  /\ UNCHANGED <<svc, conns, kind, hpc, cid, application_state, closeCalls,
                 callerGone, sent, cv, tpc, rpc, readySeen, lateForward, stopSeen,
                 agentClosedActive, ends>>
  /\ UNCHANGED <<dirv, logv>>

\* bridge_streams, elevenlabs_to_twilio: the legacy receive_audio yields
\* one empty chunk, which is sent to the stream, and ends
E2T ==
  /\ kind = "media" /\ rpc = "start"
  /\ sent' = IF CanSend THEN sent \cup {"media"} ELSE sent
  /\ lateForward' = (lateForward \/ fpc = "done")
  /\ rpc' = "done"
  /\ legError' = (legError \/ ~CanSend)
  /\ streamOut' = IF CanSend THEN Append(streamOut, stream_sid)
                  ELSE streamOut
  /\ UNCHANGED <<svc, conns, kind, hpc, cid, client_state, application_state,
                 closeCalls, callerGone, cv, tpc, fpc, readySeen, stopSeen,
                 agentClosedActive, ends>>
  /\ UNCHANGED <<agents, lastReg, agentKeys, agent_map, auxv, silenceSent,
                 bridges, stream_sid>>

\* bridge_streams: asyncio.gather returns when both directions have ended
BridgeReturn ==
  /\ kind = "media" /\ hpc = "bridge"
  /\ fpc = "done" /\ rpc = "done"
  /\ hpc' = "returned"
  /\ UNCHANGED <<svc, conns, kind, cid, sock, cv, tasks, hist, ends>>
  /\ UNCHANGED <<dirv, logv>>

MediaFinally == kind = "media" /\ Finally(FALSE)

\* ------------------------------------- ElevenLabsConversationHandler
\* start(): get_signed_url answers (ok), or fails or times out (None)
SignedUrl(ok) ==
  /\ tpc = "signed_url"
  /\ IF ok THEN tpc' = "connecting" /\ UNCHANGED is_active
     ELSE tpc' = "failed" /\ is_active' = FALSE
  /\ UNCHANGED <<svc, conns, kind, hpc, cid, sock, conversation,
                 elevenlabs_ws, agentGone, agentCloses, fpc, rpc, hist, ends>>
  /\ UNCHANGED <<dirv, logv>>

\* start(): websockets.connect succeeds, or fails or times out
Connect(ok) ==
  /\ tpc = "connecting"
  /\ IF ok
     THEN tpc' = "silence" /\ is_active' = TRUE /\ elevenlabs_ws' = "open"
     ELSE tpc' = "failed" /\ is_active' = FALSE /\ UNCHANGED elevenlabs_ws
  /\ UNCHANGED <<svc, conns, kind, hpc, cid, sock, conversation,
                 agentGone, agentCloses, fpc, rpc, hist, ends>>
  /\ UNCHANGED <<dirv, logv>>

\* start() creating both directions without the initial silence
SilenceNotSent ==
  /\ tpc = "silence"
  /\ IF AgentWritable
     THEN tpc' = "waiting" /\ fpc' = "start" /\ rpc' = "start"
          /\ UNCHANGED is_active
     ELSE tpc' = "failed" /\ is_active' = FALSE /\ UNCHANGED <<fpc, rpc>>
  /\ UNCHANGED <<svc, conns, kind, hpc, cid, sock, conversation,
                 elevenlabs_ws, agentGone, agentCloses, hist, ends>>
  /\ UNCHANGED <<dirv, logv>>

\* start(): after the sleep the initial silence is sent on the agent
\* socket, then both directions are created; a send that raises ends start
Silence ==
  /\ tpc = "silence"
  /\ IF AgentWritable
     THEN tpc' = "waiting" /\ fpc' = "start" /\ rpc' = "start"
          /\ silenceSent' = silenceSent + 1
          /\ UNCHANGED is_active
     ELSE tpc' = "failed" /\ is_active' = FALSE
          /\ UNCHANGED <<fpc, rpc, silenceSent>>
  /\ UNCHANGED <<svc, conns, kind, hpc, cid, sock, conversation,
                 elevenlabs_ws, agentGone, agentCloses, hist, ends>>
  /\ UNCHANGED <<agents, lastReg, agentKeys, agent_map, auxv, bridges,
                 twv, logv>>

\* start(): asyncio.wait(FIRST_COMPLETED) returns, pending tasks cancelled
StartResume ==
  /\ tpc = "waiting"
  /\ fpc = "done" \/ rpc = "done"
  /\ tpc' = "done"
  /\ fpc' = IF fpc = "done" THEN "done" ELSE "cancelled"
  /\ rpc' = IF rpc = "done" THEN "done" ELSE "cancelled"
  /\ UNCHANGED <<svc, conns, kind, hpc, cid, sock, cv, hist, ends>>
  /\ UNCHANGED <<dirv, logv>>

\* the while self.is_active test of a direction
LoopTest(active) == IF active THEN "recv" ELSE "done"

\* forward_to_elevenlabs: first test of the loop condition
FStart ==
  /\ Relay /\ fpc = "start"
  /\ fpc' = LoopTest(is_active)
  /\ UNCHANGED <<svc, conns, kind, hpc, cid, sock, cv, tpc, rpc, hist, ends>>
  /\ UNCHANGED <<dirv, logv>>

\* forward_to_elevenlabs: one caller message
FCaller(t) ==
  /\ Relay /\ fpc = "recv"
  /\ ~callerGone /\ ~HandlerExited /\ application_state = "connected"
  /\ IF t \in {"audio", "interrupt"}
     THEN IF AgentWritable
          THEN /\ fpc' = LoopTest(is_active)
               /\ lateForward' = (lateForward \/ rpc = "done")
               /\ UNCHANGED <<is_active, stopSeen>>
          ELSE /\ fpc' = "done" /\ is_active' = FALSE
               /\ UNCHANGED <<lateForward, stopSeen>>
     ELSE IF t = "end"
     THEN /\ fpc' = "done" /\ is_active' = FALSE
          /\ stopSeen' = (stopSeen \/ rpc = "recv")
          /\ UNCHANGED lateForward
     ELSE /\ fpc' = LoopTest(is_active)
          /\ UNCHANGED <<is_active, lateForward, stopSeen>>
  /\ legError' = (legError \/ (t \in {"audio", "interrupt"} /\ ~AgentWritable))
  /\ UNCHANGED <<svc, conns, kind, hpc, cid, sock, conversation,
                 elevenlabs_ws, agentGone, agentCloses, tpc, rpc, readySeen,
                 agentClosedActive, ends>>
  /\ UNCHANGED dirv

\* forward_to_elevenlabs: receive_json raises (disconnect)
FDisconnect ==
  /\ Relay /\ fpc = "recv"
  /\ callerGone \/ HandlerExited \/ application_state = "closed"
  /\ client_state' = "disconnected"
  /\ fpc' = "done" /\ is_active' = FALSE
  /\ legError' = TRUE
  /\ UNCHANGED <<svc, conns, kind, hpc, cid, application_state, closeCalls,
                 callerGone, sent, conversation, elevenlabs_ws, agentGone,
                 agentCloses, tpc, rpc, readySeen, lateForward, stopSeen,
                 agentClosedActive, ends>>
  /\ UNCHANGED <<dirv, logv>>

\* forward_from_elevenlabs: first test of the loop condition
RStart ==
  /\ Relay /\ rpc = "start"
  /\ rpc' = LoopTest(is_active)
  /\ UNCHANGED <<svc, conns, kind, hpc, cid, sock, cv, tpc, fpc, hist, ends>>
  /\ UNCHANGED <<dirv, logv>>

\* every event but the ping is passed on under its own type
ForwardedAnyType(ev) == IF ev.type = "ping" THEN {} ELSE {ev.type}

\* the error report of the agent is logged and not passed on
ForwardedNoError(ev) ==
  IF ev.type = "conversation_initiation_metadata"
  THEN {"conversation_started"}
  ELSE IF ev.type = "audio_event"
  THEN (IF ev.data # <<>> THEN {"audio"} ELSE {})
  ELSE IF ev.type \in TranscriptTypes THEN {ev.type}
  ELSE {}

\* what forward_from_elevenlabs sends to the caller for an agent event
Forwarded(ev) ==
  IF ev.type = "conversation_initiation_metadata"
  THEN {"conversation_started"}
  ELSE IF ev.type = "audio_event"
  THEN (IF ev.data # <<>> THEN {"audio"} ELSE {})
  ELSE IF ev.type \in TranscriptTypes THEN {ev.type}
  ELSE IF ev.type = "error" THEN {"error"}
  ELSE {}

\* forward_from_elevenlabs: one agent event
RAgent(ev) ==
  /\ rpc = "recv"
  /\ AgentWritable
  /\ readySeen' = (readySeen \/ ev.type = "conversation_initiation_metadata")
  /\ IF Forwarded(ev) = {}
     THEN /\ rpc' = LoopTest(is_active)
          /\ UNCHANGED <<sent, is_active, lateForward>>
     ELSE IF CanSend
     THEN /\ sent' = sent \cup Forwarded(ev)
          /\ rpc' = LoopTest(is_active)
          /\ lateForward' =
               (lateForward \/ (ev.type = "audio_event" /\ fpc = "done"))
          /\ UNCHANGED is_active
     ELSE /\ rpc' = "done" /\ is_active' = FALSE
          /\ UNCHANGED <<sent, lateForward>>
  /\ legError' = (legError \/ (Forwarded(ev) # {} /\ ~CanSend))
  /\ UNCHANGED <<svc, conns, kind, hpc, cid, client_state, application_state,
                 closeCalls, callerGone, conversation, elevenlabs_ws,
                 agentGone, agentCloses, tpc, fpc, stopSeen,
                 agentClosedActive, ends>>
  /\ UNCHANGED dirv

\* forward_from_elevenlabs: recv raises ConnectionClosed
RClosed ==
  /\ rpc = "recv"
  /\ agentGone \/ elevenlabs_ws = "closed"
  /\ rpc' = "done" /\ is_active' = FALSE
  /\ legError' = TRUE
  /\ UNCHANGED <<svc, conns, kind, hpc, cid, sock, conversation,
                 elevenlabs_ws, agentGone, agentCloses, tpc, fpc, readySeen, lateForward, stopSeen,
                 agentClosedActive, ends>>
  /\ UNCHANGED <<dirv, logv>>

\* forward_from_elevenlabs: recv returns text json.loads rejects; the
\* exception ends the loop through except Exception
RUnparseable ==
  /\ rpc = "recv"
  /\ AgentWritable
  /\ rpc' = "done" /\ is_active' = FALSE
  /\ UNCHANGED <<svc, conns, kind, hpc, cid, sock, conversation,
                 elevenlabs_ws, agentGone, agentCloses, tpc, fpc, hist, ends>>
  /\ UNCHANGED dirv

\* forward_to_elevenlabs: receive_json rejects the text, or message["type"]
\* or message["data"] raises KeyError; the exception ends the loop through
\* except Exception
FMalformed(m) ==
  /\ Relay /\ fpc = "recv"
  /\ ~callerGone /\ ~HandlerExited /\ application_state = "connected"
  /\ m \in MalformedCaller
  /\ fpc' = "done" /\ is_active' = FALSE
  /\ UNCHANGED <<svc, conns, kind, hpc, cid, sock, conversation,
                 elevenlabs_ws, agentGone, agentCloses, tpc, rpc, hist, ends>>
  /\ UNCHANGED dirv

\* the tests of the dispatch of forward_from_elevenlabs, in the order
\* of its if / elif chain, with the event each branch handles
Branches ==
  <<"Ready", "AgentAudio", "UserTranscript", "AgentTranscript", "Heartbeat",
    "RemoteError">>

BranchTest(i, msg) ==
  IF i = 1 THEN msg.type = "conversation_initiation_metadata"
  ELSE IF i = 2 THEN msg.audio_event
  ELSE IF i = 3 THEN msg.type = "user_transcript"
  ELSE IF i = 4 THEN msg.type = "agent_response"
  ELSE IF i = 5 THEN msg.type = "ping"
  ELSE msg.error

\* the dispatch written with independent if statements
HandledEveryTest(msg) ==
  IF \A i \in DOMAIN Branches : ~BranchTest(i, msg) THEN {"Unrecognized"}
  ELSE {Branches[i] : i \in {j \in DOMAIN Branches : BranchTest(j, msg)}}

\* the branches that run for a message: a branch runs when its test holds
\* and the test of no branch before it does; the final else runs when no
\* test holds
Handled(msg) ==
  IF \A i \in DOMAIN Branches : ~BranchTest(i, msg) THEN {"Unrecognized"}
  ELSE {Branches[i] : i \in {j \in DOMAIN Branches :
                               /\ BranchTest(j, msg)
                               /\ \A k \in 1..(j - 1) : ~BranchTest(k, msg)}}

\* forward_from_elevenlabs: one parsed message goes through the dispatch
Dispatch(msg) ==
  /\ Len(wireIn) < MaxWire
  /\ wireIn' = Append(wireIn, msg)
  /\ events' = Append(events, Handled(msg))
  /\ UNCHANGED <<svc, conns, kind, hpc, cid, sock, cv, tasks, hist, ends,
                 logv, agents, lastReg, agentKeys, agent_map, obsv>>

\* ------------------------------------------------------ frame records
\* the message forward_to_elevenlabs sends on the agent socket for a
\* caller frame: the "data" text is passed on as it came
AgentMessage(f) ==
  IF f.type = "audio" THEN [type |-> "user_audio_chunk", data |-> f.data]
  ELSE [type |-> "audio_input_override", data |-> <<>>]

\* the caller frame as recorded, with the loop that read it and is_active
\* at the time of receipt
Received(f, reader) ==
  [type |-> f.type, data |-> f.data, active |-> is_active, reader |-> reader]

\* forward_to_elevenlabs with the new message put before the earlier ones
FLogReordered(f) ==
  /\ callerIn' = IF f.type \in {"audio", "interrupt"}
                 THEN Append(callerIn, Received(f, "forward_to_elevenlabs"))
                 ELSE callerIn
  /\ agentOut' = IF f.type \in {"audio", "interrupt"} /\ AgentWritable
                 THEN <<AgentMessage(f)>> \o agentOut ELSE agentOut
  /\ UNCHANGED <<agentIn, callerOut, messages, saved>>

\* forward_to_elevenlabs handles caller frame f
FLog(f) ==
  /\ callerIn' = IF f.type \in {"audio", "interrupt"}
                 THEN Append(callerIn, Received(f, "forward_to_elevenlabs"))
                 ELSE callerIn
  /\ agentOut' = IF f.type \in {"audio", "interrupt"} /\ AgentWritable
                 THEN Append(agentOut, AgentMessage(f)) ELSE agentOut
  /\ UNCHANGED <<agentIn, callerOut, messages, saved>>

\* the /ws loop handles caller frame f: audio is decoded and handed to
\* send_audio, whose body is pass; interrupt raises before anything is sent
SimpleLog(f) ==
  /\ callerIn' = IF f.type \in {"audio", "interrupt"} /\ conversation
                 THEN Append(callerIn, Received(f, "simple_websocket"))
                 ELSE callerIn
  /\ UNCHANGED <<agentOut, agentIn, callerOut, messages, saved>>

\* the message forward_from_elevenlabs sends to the caller for an event
CallerMessage(ev) ==
  [type |-> CHOOSE t \in Forwarded(ev) : TRUE, data |-> ev.data,
   text |-> ev.text]

\* the transcript entry of a transcript event
Entry(ev) ==
  [speaker |-> IF ev.type = "user_transcript" THEN "user" ELSE "agent",
   text |-> ev.text]

\* forward_from_elevenlabs calls add_message for the event
Recorded(ev) ==
  /\ ev.type \in TranscriptTypes
  /\ cid \in Ids /\ ev.text # ""
  /\ ConversationFound(cid)

\* add_message with the new entry put before the earlier ones
MessagesAfterAddFront(id, entry) ==
  [messages EXCEPT ![id] = <<entry>> \o @]

\* ConversationService.add_message: ConversationHistory.add_message
\* appends the entry, the repository saves the history
MessagesAfterAdd(id, entry) == [messages EXCEPT ![id] = Append(@, entry)]

\* forward_from_elevenlabs handles agent event ev
RLog(ev) ==
  /\ agentIn' = Append(agentIn, ev)
  /\ callerOut' = IF Forwarded(ev) # {} /\ CanSend
                  THEN Append(callerOut, CallerMessage(ev)) ELSE callerOut
  /\ messages' = IF Recorded(ev) THEN MessagesAfterAdd(cid, Entry(ev))
                 ELSE messages
  /\ saved' = IF Recorded(ev)
              THEN [saved EXCEPT ![cid] = MessagesAfterAdd(cid, Entry(ev))[cid]]
              ELSE saved
  /\ UNCHANGED <<callerIn, agentOut>>

\* forward_from_elevenlabs received text that is not JSON
RUnparseableLog ==
  /\ agentIn' = Append(agentIn, [type |-> "not_json", data |-> <<>>,
                                 text |-> ""])
  /\ UNCHANGED <<callerIn, agentOut, callerOut, messages, saved>>

\* forward_to_elevenlabs received malformed message m
FMalformedLog(m) ==
  /\ callerIn' = Append(callerIn, Received([type |-> m, data |-> <<>>],
                                           "forward_to_elevenlabs"))
  /\ UNCHANGED <<agentOut, agentIn, callerOut, messages, saved>>

\* twilio_to_elevenlabs handles stream event f: the payload of a media
\* event is decoded and handed to send_audio, whose body is pass
T2ELog(f) ==
  /\ callerIn' = IF f.type = "media"
                 THEN Append(callerIn, [type |-> "media", data |-> f.data,
                                        active |-> TRUE,
                                        reader |-> "twilio_to_elevenlabs"])
                 ELSE callerIn
  /\ UNCHANGED <<agentOut, agentIn, callerOut, messages, saved>>

\* elevenlabs_to_twilio: the chunk of the legacy receive_audio, b"", is
\* encoded and sent as a media event
E2TLog ==
  /\ callerOut' = IF CanSend
                  THEN Append(callerOut, [type |-> "media",
                                          data |-> B64Encode(<<>>),
                                          text |-> ""])
                  ELSE callerOut
  /\ UNCHANGED <<callerIn, agentOut, agentIn, messages, saved>>

\* ------------------------------------------------------ environment
\* the caller drops the connection
CallerDisconnect ==
  /\ kind # "none" /\ ~HandlerExited
  /\ ~callerGone /\ application_state = "connected"
  /\ callerGone' = TRUE
  /\ UNCHANGED <<svc, conns, kind, hpc, cid, client_state, application_state,
                 closeCalls, sent, cv, tasks, hist, ends>>
  /\ UNCHANGED <<dirv, logv>>

\* the agent service closes its socket
AgentClose ==
  /\ elevenlabs_ws = "open" /\ ~agentGone
  /\ agentGone' = TRUE
  /\ agentClosedActive' =
       (agentClosedActive \/ (tpc = "waiting" /\ ~HandlerExited))
  /\ UNCHANGED <<svc, conns, kind, hpc, cid, sock, conversation, is_active,
                 elevenlabs_ws, agentCloses, tasks, readySeen, lateForward, legError,
                 stopSeen, ends>>
  /\ UNCHANGED <<dirv, logv>>

\* ---------------------------------------------------- specification
\* the handlers, the relay and the routes; frames are not recorded
Environment ==
  \/ InitializeConversation(DefaultCountry)
  \/ \E id \in Ids : Terminate(id)
  \/ \E id \in Ids \cup {UnknownId} : ConvConnect(id)
  \/ SimpleConnect
  \/ SimpleStartCall(DefaultCountry)
  \/ \E f \in CallerFrames : SimpleCaller(f.type) /\ UNCHANGED logv
  \/ \E f \in CallerFrames : FCaller(f.type) /\ UNCHANGED logv
  \/ MediaConnect
  \/ \E e \in TwilioEvents, ctx \in BOOLEAN : MediaEvent(e, ctx)
  \/ \E ev \in AgentEvents :
       ev.type \in AgentTypes /\ RAgent(ev) /\ UNCHANGED logv
  \/ CallerDisconnect
  \/ AgentClose

Program ==
  \/ ConvReady
  \/ ConvTaskDone
  \/ ConvFinally
  \/ SimpleStarted
  \/ SimpleDisconnect
  \/ SimpleFinally
  \/ MediaDisconnect
  \/ MediaFinally
  \/ \E ok \in BOOLEAN : SignedUrl(ok)
  \/ \E ok \in BOOLEAN : Connect(ok)
  \/ Silence
  \/ StartResume
  \/ FStart
  \/ FDisconnect
  \/ RStart
  \/ RClosed

Next == Environment \/ Program

Spec == Init /\ [][Next]_vars

\* the event loop runs every task that is ready; timers and timeouts fire
FairSpec == Spec /\ WF_vars(Program)

\* one relayed connection with its frames recorded, from the moment the
\* handler has accepted it: /ws/conversation/{id} of the registered
\* session 1, or /ws
RelayInit ==
  /\ \/ /\ kind = "conv" /\ hpc = "sleep" /\ cid = 1
        /\ sessions = [i \in Ids |-> IF i = 1 THEN "active" ELSE "absent"]
        /\ sessionAgent = [i \in Ids |->
             IF i = 1
             THEN [agent_id |-> DefaultAgents[DefaultCountry].agent_id,
                   agent_name |-> DefaultAgents[DefaultCountry].name,
                   country_code |-> DefaultCountry,
                   language |-> DefaultAgents[DefaultCountry].language]
             ELSE NoAgent]
        /\ cache = [i \in Ids |-> IF i = 1 THEN "open" ELSE "none"]
        /\ repo = [i \in Ids |-> IF i = 1 THEN "open" ELSE "none"]
        /\ nextId = 2
        /\ conversation = TRUE /\ tpc = "signed_url"
     \/ /\ kind = "simple" /\ hpc = "loop" /\ cid = 0
        /\ sessions = [i \in Ids |-> "absent"]
        /\ sessionAgent = [i \in Ids |-> NoAgent]
        /\ cache = [i \in Ids |-> "none"]
        /\ repo = [i \in Ids |-> "none"]
        /\ nextId = 1
        /\ conversation = FALSE /\ tpc = "none"
  /\ conns = 1
  /\ agents = DefaultAgents
  /\ lastReg = {}
  /\ agentKeys = DefaultKeys
  /\ agent_map = AGENT_MAP
  /\ wireIn = <<>>
  /\ events = <<>>
  /\ silenceSent = 0
  /\ bridges = [c \in Conns |-> NoBridge]
  /\ stream_sid = "None"
  /\ streamOut = <<>>
  /\ callerIn = <<>>
  /\ agentOut = <<>>
  /\ agentIn = <<>>
  /\ callerOut = <<>>
  /\ messages = [i \in Ids |-> <<>>]
  /\ saved = [i \in Ids |-> <<>>]
  /\ client_state = "connected"
  /\ application_state = "connected"
  /\ closeCalls = 0
  /\ callerGone = FALSE
  /\ sent = {}
  /\ is_active = FALSE
  /\ elevenlabs_ws = "none"
  /\ agentGone = FALSE
  /\ agentCloses = 0
  /\ fpc = "none"
  /\ rpc = "none"
  /\ readySeen = FALSE
  /\ lateForward = FALSE
  /\ endCalls = 0
  /\ endDone = 0
  /\ stopSeen = FALSE
  /\ agentClosedActive = FALSE
  /\ legError = FALSE

\* frames recorded so far on the connection
Frames == Len(callerIn) + Len(agentIn)

RelayEnvironment ==
  \/ SimpleStartCall(DefaultCountry)
  \/ \E f \in CallerFrames :
       Frames < MaxFrames /\ SimpleCaller(f.type) /\ SimpleLog(f)
  \/ \E f \in CallerFrames :
       Frames < MaxFrames /\ FCaller(f.type) /\ FLog(f)
  \/ \E ev \in AgentEvents :
       Frames < MaxFrames /\ RAgent(ev) /\ RLog(ev)
  \/ CallerDisconnect
  \/ AgentClose

RelayProgram ==
  \/ ConvReady
  \/ ConvTaskDone
  \/ ConvFinally
  \/ SimpleStarted
  \/ SimpleDisconnect
  \/ SimpleFinally
  \/ \E ok \in BOOLEAN : SignedUrl(ok)
  \/ \E ok \in BOOLEAN : Connect(ok)
  \/ Silence
  \/ StartResume
  \/ FStart
  \/ FDisconnect
  \/ RStart
  \/ RClosed

RelayNext == RelayEnvironment \/ RelayProgram

RelaySpec == RelayInit /\ [][RelayNext]_vars

\* the relayed connection with terminate requests arriving over HTTP
\* while its transcript is being recorded
TranscriptNext == RelayNext \/ \E id \in Ids : Terminate(id)

TranscriptSpec == RelayInit /\ [][TranscriptNext]_vars

\* the same connection with every kind of message the two sockets can
\* deliver, well formed or not
WireEnvironment ==
  \/ SimpleStartCall(DefaultCountry)
  \/ \E f \in CallerFrames :
       Frames < MaxFrames /\ SimpleCaller(f.type) /\ SimpleLog(f)
  \/ \E f \in CallerFrames :
       Frames < MaxFrames /\ FCaller(f.type) /\ FLog(f)
  \/ \E m \in MalformedCaller :
       Frames < MaxFrames /\ FMalformed(m) /\ FMalformedLog(m)
  \/ \E ev \in WireAgentEvents :
       Frames < MaxFrames /\ RAgent(ev) /\ RLog(ev)
  \/ Frames < MaxFrames /\ RUnparseable /\ RUnparseableLog
  \/ CallerDisconnect
  \/ AgentClose

WireNext == WireEnvironment \/ RelayProgram

WireSpec == RelayInit /\ [][WireNext]_vars

\* AudioBridge.bridge_streams entered with a stream interface and a
\* conversation handler
BridgeInit ==
  /\ sessions = [i \in Ids |-> "absent"]
  /\ sessionAgent = [i \in Ids |-> NoAgent]
  /\ agents = DefaultAgents
  /\ lastReg = {}
  /\ agentKeys = DefaultKeys
  /\ agent_map = AGENT_MAP
  /\ wireIn = <<>>
  /\ events = <<>>
  /\ silenceSent = 0
  /\ bridges = [c \in Conns |-> NoBridge]
  /\ stream_sid = "None"
  /\ streamOut = <<>>
  /\ callerIn = <<>>
  /\ agentOut = <<>>
  /\ agentIn = <<>>
  /\ callerOut = <<>>
  /\ messages = [i \in Ids |-> <<>>]
  /\ saved = [i \in Ids |-> <<>>]
  /\ cache = [i \in Ids |-> "none"]
  /\ repo = [i \in Ids |-> "none"]
  /\ nextId = 1
  /\ conns = 1
  /\ kind = "media"
  /\ hpc = "bridge"
  /\ cid = 0
  /\ client_state = "connected"
  /\ application_state = "connected"
  /\ closeCalls = 0
  /\ callerGone = FALSE
  /\ sent = {}
  /\ conversation = TRUE
  /\ is_active = FALSE
  /\ elevenlabs_ws = "none"
  /\ agentGone = FALSE
  /\ agentCloses = 0
  /\ tpc = "none"
  /\ fpc = "recv"
  /\ rpc = "start"
  /\ readySeen = FALSE
  /\ lateForward = FALSE
  /\ endCalls = 0
  /\ endDone = 0
  /\ stopSeen = FALSE
  /\ agentClosedActive = FALSE
  /\ legError = FALSE

BridgeNext ==
  \/ \E f \in TwilioFrames :
       Len(callerIn) < MaxFrames /\ T2E(f.type) /\ T2ELog(f)
  \/ T2EDisconnect
  \/ E2T /\ E2TLog
  \/ BridgeReturn
  \/ CallerDisconnect

BridgeSpec == BridgeInit /\ [][BridgeNext]_vars

\* the agent directory and the session registry behind the routes
DirectoryNext ==
  \/ \E code \in Codes, config \in Configs : RegisterAgent(code, config)
  \/ \E code \in Codes : InitializeConversation(code)
  \/ \E id \in Ids : Terminate(id)

DirectorySpec == Init /\ [][DirectoryNext]_vars

\* the session registry with its calls interleaved at their awaits, and
\* the directory the sessions take their agent from
RegistryNext ==
  \/ \E code \in {DefaultCountry, <<"m", "x">>} : InitializeBegin(code)
  \/ \E id \in Ids : InitializeEnd(id)
  \/ \E id \in Ids : UpdateSessionStatus(id, "active")
  \/ \E id \in Ids : Terminate(id)
  \/ \E code \in {DefaultCountry, <<"m", "x">>}, config \in Configs :
       RegisterAgent(code, config)

RegistrySpec == Init /\ [][RegistryNext]_vars

\* websocket connections to /ws/conversation/{id} served side by side
ConnectionsNext ==
  \/ \E code \in {DefaultCountry, <<"m", "x">>} : InitializeConversation(code)
  \/ \E c \in Conns, id \in Ids \cup {UnknownId} : ConnOpen(c, id)
  \/ \E c \in Conns : ConnAgent(c)
  \/ \E c \in Conns : ConnTeardown(c)

ConnectionsSpec == Init /\ [][ConnectionsNext]_vars

\* initialize_session under registrations of custom agents, typed or not
InitializeNext ==
  \/ \E code \in {DefaultCountry, <<"m", "x">>} : InitializeCall(code)
  \/ \E code \in {DefaultCountry, <<"m", "x">>},
        config \in Configs \cup UntypedConfigs :
       RegisterAgent(code, config)

InitializeSpec == Init /\ [][InitializeNext]_vars

\* the dispatch of forward_from_elevenlabs on every kind of parsed message
DispatchNext == \E msg \in WireMessages : Dispatch(msg)

DispatchSpec == Init /\ [][DispatchNext]_vars

\* the two agent tables under registrations
AgentsNext ==
  \/ \E code \in Codes, config \in Configs : RegisterAgent(code, config)
  \/ \E code \in Codes, config \in Configs : AddCustomAgent(code, config)

AgentsSpec == Init /\ [][AgentsNext]_vars

TypeOK ==
  /\ sessions \in [Ids -> {"absent", "initialized", "active", "ended"}]
  /\ \A i \in Ids : sessions[i] = "absent" <=> sessionAgent[i] = NoAgent
  /\ \A r \in lastReg : r.code \in Codes /\ r.config \in Configs
  /\ DOMAIN agents = {agentKeys[i] : i \in DOMAIN agentKeys}
  /\ \A i, j \in DOMAIN agentKeys : agentKeys[i] = agentKeys[j] => i = j
  /\ \A i, j \in DOMAIN agent_map :
       agent_map[i].code = agent_map[j].code => i = j
  /\ Len(callerIn) <= MaxFrames /\ Len(agentIn) <= MaxFrames
  /\ Len(agentOut) <= MaxFrames /\ Len(callerOut) <= MaxFrames
  /\ \A i \in Ids : saved[i] = messages[i]
  /\ cache \in [Ids -> {"none", "open", "endtime"}]
  /\ repo \in [Ids -> {"none", "open", "ended"}]
  /\ nextId \in 1..(MaxSessions + 1)
  /\ conns \in 0..MaxConnections
  /\ kind \in {"none", "conv", "simple", "media"}
  /\ hpc \in {"none", "sleep", "await_task", "loop", "bridge", "finally",
              "finally_exc", "returned", "raised"}
  /\ cid \in 0..UnknownId
  /\ closeCalls \in 0..2
  /\ agentCloses \in 0..1
  /\ tpc \in {"none", "signed_url", "connecting", "silence", "waiting",
              "done", "failed"}
  /\ fpc \in {"none", "start", "recv", "done", "cancelled"}
  /\ rpc \in {"none", "start", "recv", "done", "cancelled"}
  /\ silenceSent \in 0..1
  /\ stream_sid \in ConnectedSids
  /\ \A c \in Conns : bridges[c].pc \in {"none", "sleep", "open", "done"}

\* ------------------------------------------------------------ claims
\* the bridge is torn down: handler left, caller socket closed by either
\* side, agent socket not open, no direction still reading, session ended
TornDown ==
  /\ HandlerExited
  /\ application_state = "closed" \/ client_state = "disconnected"
  /\ elevenlabs_ws # "open"
  /\ TaskEnded(tpc) /\ TaskEnded(fpc) /\ TaskEnded(rpc)
  /\ cid \in Ids => sessions[cid] \in {"ended", "absent"}

\* C1: every bridge ends with each of its sockets closed exactly once:
\* close is never called twice on a socket, and once the handler and its
\* tasks have ended the caller socket is closed and the agent socket is
\* not left open.
C1_SocketsClosedOnce ==
  /\ closeCalls <= 1
  /\ agentCloses <= 1
  /\ (kind # "none" /\ Idle) =>
       /\ closeCalls = 1 \/ client_state = "disconnected"
       /\ elevenlabs_ws # "open"

\* C2: when the handler of a bridge with a conversation id has exited,
\* it has called end_session exactly once and that call ran to completion.
C2_EndSessionOnceCompleted ==
  (Relay /\ HandlerExited /\ cid \in Ids) => (endCalls = 1 /\ endDone = 1)

\* C3: once one relay direction has ended, the other direction forwards
\* no further frame.
C3_NoForwardAfterEnd == ~lateForward

\* C4: after the agent socket closes during an active call the bridge is
\* eventually torn down.
C4_AgentCloseTearsDown == agentClosedActive ~> TornDown

\* C5: when the handler has exited after a caller end signal that arrived
\* while the agent relay was reading, the agent relay has ended, both
\* sockets are closed, the session is out of the registry and the
\* persisted history is ended.
C5_StopTearsDown ==
  (Relay /\ HandlerExited /\ stopSeen /\ TaskEnded(tpc)) =>
     /\ TaskEnded(rpc)
     /\ elevenlabs_ws = "closed"
     /\ application_state = "closed"
     /\ sessions[cid] = "absent"
     /\ repo[cid] = "ended"

\* the agent connection could not be established
SetupFailed == Relay /\ tpc = "failed" /\ elevenlabs_ws = "none"

\* C6: when the handler has exited after a failed agent connection (the
\* caller still connected), the caller has received the failure notice,
\* its socket is closed and the session is out of the registry.
C6_SetupFailureOutcome ==
  (SetupFailed /\ HandlerExited /\ ~callerGone) =>
     /\ "error" \in sent
     /\ application_state = "closed"
     /\ sessions[cid] = "absent"

Connecting == Relay /\ tpc \in {"signed_url", "connecting"}

\* C7: the connecting state is always left, and a failed agent connection
\* leads to the bridge being torn down.
C7_HandshakeBounded ==
  /\ Connecting ~> ~Connecting
  /\ SetupFailed ~> TornDown

\* C8: the ready signal is on the caller side, and the session of a
\* running handler is active, only after the agent socket produced the
\* conversation-initiation acknowledgement.
C8_ReadyAfterAck ==
  /\ (sent \cap {"ready", "call_started"} # {}) => readySeen
  /\ (kind = "conv" /\ ~HandlerExited /\ Registered(cid)
        /\ sessions[cid] = "active") => readySeen

StatusRank(st) ==
  IF st = "initialized" THEN 1 ELSE IF st = "active" THEN 2 ELSE 3

\* C9: the status of a registered session never moves back in the order
\* initialized, active, ended.
C9_StatusMonotonic ==
  [][\A i \in Ids :
       (sessions[i] # "absent" /\ sessions'[i] # "absent")
          => StatusRank(sessions'[i]) >= StatusRank(sessions[i])]_vars

\* both relay directions of the bridge are running
RelayRunning == Relay /\ tpc = "waiting"

\* C10: while the relay of a bridge is running, the bridge's session is
\* present in the session registry.
C10_RelayHasSession == RelayRunning => Registered(cid)

\* a terminate request was served while both directions were reading
C10_Witness ==
  /\ RelayRunning /\ fpc = "recv" /\ rpc = "recv"
  /\ Registered(cid) /\ sessions[cid] = "ended"
\* ---------------------------------------------- recorded frames
\* the caller frames of type t received while the relay was active
ActiveIn(t) == {i \in DOMAIN callerIn : callerIn[i].type = t /\ callerIn[i].active}

\* the messages of type t sent on the agent socket
SentToAgent(t) == {i \in DOMAIN agentOut : agentOut[i].type = t}

\* C11: while the relay is active and the agent socket is writable, every
\* audio message received from the caller has been sent to the agent socket
\* as exactly one user_audio_chunk message, and every interrupt message as
\* exactly one audio_input_override message.
C11_CallerForwardedOnce ==
  (is_active /\ AgentWritable) =>
    /\ Cardinality(SentToAgent("user_audio_chunk")) = Cardinality(ActiveIn("audio"))
    /\ Cardinality(SentToAgent("audio_input_override"))
         = Cardinality(ActiveIn("interrupt"))

\* the audio messages sent to the caller side
AudioToCaller == {i \in DOMAIN callerOut : callerOut[i].type = "audio"}

\* the agent events that are audio events, with or without a payload
AudioEvents == {i \in DOMAIN agentIn : agentIn[i].type = "audio_event"}

IsTranscript(ev) == ev.type \in {"user_transcript", "agent_response"}

HasText(ev) == IsTranscript(ev) /\ ev.text # ""

\* the transcript entry the claim expects for a transcript event
Tagged(ev) ==
  [speaker |-> IF ev.type = "user_transcript" THEN "user" ELSE "agent",
   text |-> ev.text]

\* C12 as stated: every audio event received from the agent socket has been
\* sent to the caller side as exactly one audio message (while the caller
\* socket is writable), and every user-transcript or agent-response event
\* has been appended as exactly one transcript entry tagged with its
\* speaker.
C12_EveryAgentEventDelivered ==
  /\ CanSend => Cardinality(AudioToCaller) = Cardinality(AudioEvents)
  /\ cid \in Ids =>
       messages[cid] = [i \in 1..Len(SelectSeq(agentIn, IsTranscript)) |->
                          Tagged(SelectSeq(agentIn, IsTranscript)[i])]

\* C12, amended: every audio event that carries audio_base_64 has been sent
\* to the caller side as exactly one audio message (while the caller socket
\* is writable), and every user-transcript or agent-response event with a
\* non-empty text has been appended as exactly one transcript entry tagged
\* with its speaker; an audio event without payload and a transcript event
\* without text leave no message and no entry.
C12_AgentEventsDelivered ==
  /\ CanSend =>
       Cardinality(AudioToCaller)
         = Cardinality({i \in AudioEvents : agentIn[i].data # <<>>})
  /\ cid \in Ids =>
       messages[cid] = [i \in 1..Len(SelectSeq(agentIn, HasText)) |->
                          Tagged(SelectSeq(agentIn, HasText)[i])]

\* an audio event with a payload and a transcript event with text have
\* been handled, the caller socket is writable
C12_Witness ==
  /\ CanSend /\ cid \in Ids
  /\ \E i \in AudioEvents : agentIn[i].data # <<>>
  /\ \E i \in DOMAIN agentIn : HasText(agentIn[i])
  /\ Len(messages[cid]) = 1 /\ AudioToCaller # {}

\* the caller frames read by forward_to_elevenlabs, in the order of receipt
ByRelay(e) == e.reader = "forward_to_elevenlabs"

RelayIn == SelectSeq(callerIn, ByRelay)

\* the agent message that corresponds to a caller frame
ToAgent(e) ==
  IF e.type = "audio" THEN [type |-> "user_audio_chunk", data |-> e.data]
  ELSE [type |-> "audio_input_override", data |-> <<>>]

\* the agent events forward_from_elevenlabs passes on to the caller
PassedOn(ev) ==
  \/ ev.type \in {"conversation_initiation_metadata", "user_transcript",
                  "agent_response"}
  \/ ev.type = "audio_event" /\ ev.data # <<>>

AgentPassed == SelectSeq(agentIn, PassedOn)

\* the caller message that corresponds to an agent event
ToCaller(ev) ==
  [type |-> IF ev.type = "conversation_initiation_metadata"
            THEN "conversation_started"
            ELSE IF ev.type = "audio_event" THEN "audio" ELSE ev.type,
   data |-> ev.data, text |-> ev.text]

\* C13: in each direction the messages sent are, in the order of receipt,
\* the messages for the frames the direction received, one message per
\* frame: the k-th message sent on the agent socket is the message for the
\* k-th audio or interrupt frame forward_to_elevenlabs read, the k-th
\* message sent to the caller is the message for the k-th event
\* forward_from_elevenlabs passes on, and while the outbound socket is
\* writable no frame is missing.
C13_OrderPreserved ==
  /\ Len(agentOut) <= Len(RelayIn)
  /\ \A k \in 1..Len(agentOut) : agentOut[k] = ToAgent(RelayIn[k])
  /\ AgentWritable => Len(agentOut) = Len(RelayIn)
  /\ Len(callerOut) <= Len(AgentPassed)
  /\ \A k \in 1..Len(callerOut) : callerOut[k] = ToCaller(AgentPassed[k])
  /\ CanSend => Len(callerOut) = Len(AgentPassed)

\* forward_to_elevenlabs has forwarded two different frames
C13_Witness ==
  /\ Len(agentOut) = 2 /\ agentOut[1] # agentOut[2]
  /\ Len(RelayIn) = 2

\* C14: a transcript is append-only and ordered by insertion: every step
\* leaves each session's entries as they were, or adds the entry of the
\* transcript event that has just arrived after all of them, and the
\* persisted transcript is the one in memory.
C14_AppendOnly ==
  [][\A i \in Ids :
       /\ \/ messages'[i] = messages[i]
          \/ /\ i = cid /\ Len(agentIn') = Len(agentIn) + 1
             /\ messages'[i] =
                  Append(messages[i], Tagged(agentIn'[Len(agentIn')]))
       /\ saved'[i] = messages'[i]]_vars

\* a user transcript and then an agent response have been appended
C14_Witness ==
  /\ cid \in Ids
  /\ Len(messages[cid]) = 2
  /\ messages[cid][1].speaker = "user" /\ messages[cid][2].speaker = "agent"
  /\ saved[cid] = messages[cid]

\* the media frames read from the telephony stream or the caller socket
MediaIn(e) == e.type \in {"media", "audio"}

\* C15: the k-th inbound media frame reaches the agent socket as the k-th
\* audio message, and the bytes that message encodes are the bytes the
\* inbound payload encodes; decoding and encoding again gives text that
\* decodes to the same bytes.
C15_PayloadReachesAgent ==
  /\ \A k \in 1..Len(SelectSeq(callerIn, MediaIn)) :
       /\ k <= Len(agentOut)
       /\ agentOut[k].type = "user_audio_chunk"
       /\ B64Decode(agentOut[k].data)
            = B64Decode(SelectSeq(callerIn, MediaIn)[k].data)
  /\ \A p \in Payloads :
       B64Decode(B64Encode(B64Decode(p))) = B64Decode(p)

\* ------------------------------------------- registry and directory
\* a second end_session(id), called after a first one, raises
SecondEndRaises(id) ==
  /\ id \in Ids
  /\ SessionsAfterEnd(id)[id] # "absent"
  /\ CacheAfterEnd(id)[id] # "none" \/ RepoAfterEnd(id)[id] # "none"
  /\ "status" \notin ConversationHistoryFields

\* C16: for every session id, registered or unknown, end_session called
\* twice in a row raises neither time, and after the first call the session
\* is no longer registered, so that the second call changes nothing.
C16_EndTwiceNeverRaises ==
  \A id \in Ids \cup {UnknownId} :
    /\ ~EndSessionRaises(id)
    /\ ~SecondEndRaises(id)
    /\ id \in Ids => SessionsAfterEnd(id)[id] = "absent"

\* C17: a step that is end_session(id) on a registered session leaves the
\* history persisted as ended, with its end time, and the session absent
\* from the registry: get_session(id) finds nothing and the active sessions
\* do not include it.
C17_EndedAndRemoved ==
  [][\A id \in Ids :
       Terminate(id) =>
         /\ repo'[id] = "ended"
         /\ sessions'[id] = "absent"
         /\ ~Registered(id)']_vars

\* the directory key each spelling of a region code stands for
KeyOf ==
  (<<"A", "R">> :> <<"A", "R">>) @@ (<<"a", "r">> :> <<"A", "R">>) @@
  (<<"M", "X">> :> <<"M", "X">>) @@ (<<"m", "x">> :> <<"M", "X">>) @@
  (<<"C", "L">> :> <<"C", "L">>) @@ (<<"c", "l">> :> <<"C", "L">>)

\* the profile the directory holds for a region code: the entry of its
\* key, or the Argentine entry when the key has none
ProfileFor(code) ==
  IF KeyOf[code] \in DOMAIN agents THEN agents[KeyOf[code]]
  ELSE agents[<<"A", "R">>]

\* C18: a step that is initialize_session(code) registers, under an id that
\* no session had before, a session with status initialized whose agent id,
\* agent name and language are those of the profile the directory holds for
\* the code (the Argentine profile when the code has no entry), and
\* get_session of that id finds it.
C18_InitializedWithProfile ==
  [][\A code \in Codes :
       InitializeConversation(code) =>
         /\ sessions[nextId] = "absent"
         /\ \A j \in Ids : Registered(j) => j # nextId
         /\ sessions'[nextId] = "initialized"
         /\ sessionAgent'[nextId] =
              [agent_id |-> ProfileFor(code).agent_id,
               agent_name |-> ProfileFor(code).name,
               country_code |-> code,
               language |-> ProfileFor(code).language]]_vars

\* a session was initialized for a code without an entry and has the
\* Argentine profile, another for a lower-case spelling of an entry
C18_Witness ==
  \E i, j \in Ids :
    /\ sessions[i] = "initialized"
    /\ sessionAgent[i].country_code = <<"c", "l">>
    /\ sessionAgent[i].agent_id = "agent_3601k52aw9jmej0a61svgk2hm0t1"
    /\ sessions[j] = "initialized"
    /\ sessionAgent[j].country_code = <<"m", "x">>
    /\ sessionAgent[j].language = "es-MX"

\* C19: whatever register_agent calls were made, accepted or rejected,
\* create_agent returns an agent profile for every region code and does not
\* fail, and for a code whose key has no entry the profile is the one of
\* the default entry, which is always present.
C19_CreateAgentTotal ==
  /\ <<"A", "R">> \in DOMAIN agents
  /\ \A code \in Codes :
       /\ DOMAIN CreateAgent(code) =
            {"agent_id", "name", "language", "context", "country_code",
             "api_key"}
       /\ KeyOf[code] \notin DOMAIN agents =>
            /\ CreateAgent(code).agent_id = agents[<<"A", "R">>].agent_id
            /\ CreateAgent(code).name = agents[<<"A", "R">>].name
            /\ CreateAgent(code).language = agents[<<"A", "R">>].language

\* a registration was accepted, the last one was rejected, and one of the
\* codes still has no entry
C19_Witness ==
  /\ \E r \in lastReg : ~r.accepted
  /\ \E k \in DOMAIN agents : agents[k].agent_id = "agent_custom"
  /\ <<"C", "L">> \notin DOMAIN agents
  /\ CreateAgent(<<"c", "l">>).agent_id = agents[<<"A", "R">>].agent_id

\* C20: the lookup is case-insensitive: two spellings of the same region
\* code give the same profile, and a profile registered under one spelling
\* is the profile returned for every spelling of that code.
C20_CaseInsensitive ==
  /\ \A c, d \in Codes : KeyOf[c] = KeyOf[d] => CreateAgent(c) = CreateAgent(d)
  /\ \A r \in lastReg : \A c \in Codes :
       (r.accepted /\ KeyOf[c] = KeyOf[r.code]) =>
         /\ CreateAgent(c).agent_id = r.config.agent_id
         /\ CreateAgent(c).name = r.config.name
         /\ CreateAgent(c).language = r.config.language

\* a profile was registered under a lower-case spelling and is returned for
\* the capitals, for a code that had no entry before
C20_Witness ==
  /\ \E r \in lastReg : r.accepted /\ r.code = <<"c", "l">>
  /\ CreateAgent(<<"C", "L">>).agent_id = "agent_custom"
  /\ CreateAgent(<<"c", "l">>) = CreateAgent(<<"C", "L">>)

\* the entries of the factory that have the language of a tag, ignoring
\* case, by their place in the insertion order; the same for the mapper
FactoryMatches(tag) ==
  {i \in DOMAIN agentKeys : LanguageHit(agents[agentKeys[i]], tag)}

MapperMatches(tag) ==
  {i \in DOMAIN agent_map : LanguageHit(agent_map[i].config, tag)}

\* the factory's lookup returns the first matching entry, or None
FactoryLookupFirstMatch ==
  \A tag \in Tags :
    LET first == CHOOSE i \in FactoryMatches(tag) :
                   \A j \in FactoryMatches(tag) : i <= j
    IN  IF FactoryMatches(tag) = {}
        THEN GetAgentByLanguage(tag) = Absent
        ELSE /\ "agent_id" \in DOMAIN GetAgentByLanguage(tag)
             /\ GetAgentByLanguage(tag).agent_id
                  = agents[agentKeys[first]].agent_id
             /\ GetAgentByLanguage(tag).name = agents[agentKeys[first]].name
             /\ GetAgentByLanguage(tag).language
                  = agents[agentKeys[first]].language

\* the mapper's lookup returns the first matching entry, or None
MapperLookupFirstMatch ==
  \A tag \in Tags :
    LET first == CHOOSE i \in MapperMatches(tag) :
                   \A j \in MapperMatches(tag) : i <= j
    IN  IF MapperMatches(tag) = {}
        THEN MapperGetAgentByLanguage(tag) = Absent
        ELSE MapperGetAgentByLanguage(tag) = agent_map[first].config

\* C21: in both agent tables, the lookup by language returns the first
\* entry, in insertion order, whose language equals the tag ignoring case;
\* when no entry matches it returns None: it does not raise and does not
\* return a default entry.
C21_LookupByLanguage == FactoryLookupFirstMatch /\ MapperLookupFirstMatch

\* a configuration lacks one of agent id, name, language, context
Incomplete(config) ==
  ~({"agent_id", "name", "language", "context"} \subseteq DOMAIN config)

\* the factory rejects an incomplete configuration, names a field that is
\* missing and keeps its entries
FactoryRejectsIncomplete ==
  [][\A code \in Codes, config \in Configs :
       (Incomplete(config) /\ RegisterAgent(code, config)) =>
         /\ agents' = agents
         /\ agentKeys' = agentKeys
         /\ \A r \in lastReg' :
              /\ ~r.accepted
              /\ r.error \in {"agent_id", "name", "language", "context"}
                               \ DOMAIN config]_vars

\* C22: registering a configuration that lacks agent id, name, language or
\* context fails with an error that names a missing field, and the entries
\* of the table it was registered with are what they were before the call,
\* in the factory and in the mapper.
C22_IncompleteRejected ==
  [][\A code \in Codes, config \in Configs :
       /\ (Incomplete(config) /\ RegisterAgent(code, config)) =>
            /\ agents' = agents
            /\ agentKeys' = agentKeys
            /\ \A r \in lastReg' :
                 /\ ~r.accepted
                 /\ r.error \in {"agent_id", "name", "language", "context"}
                                  \ DOMAIN config
       /\ (Incomplete(config) /\ AddCustomAgent(code, config)) =>
            agent_map' = agent_map]_vars

\* C23: get_active_sessions holds a session exactly when it is registered
\* with status active, and the health report counts these sessions; a
\* session enters the result by the activation of a websocket connection
\* for its id, a newly initialized session is not in it, and a session
\* leaves it only by end_session, which sets its status to ended or
\* removes it.
C23_ActiveSessions ==
  /\ [](\A i \in Ids :
          (i \in GetActiveSessions) <=> (sessions[i] = "active"))
  /\ [](HealthCheck.active_conversations
         = Cardinality({i \in Ids : sessions[i] = "active"}))
  /\ [][\A i \in Ids :
         /\ (ConvConnect(i) /\ Registered(i)) => i \in GetActiveSessions'
         /\ (sessions[i] = "absent" /\ sessions'[i] # "absent") =>
              i \notin GetActiveSessions'
         /\ (i \in GetActiveSessions /\ i \notin GetActiveSessions') =>
              sessions'[i] \in {"ended", "absent"}
         /\ (i \notin GetActiveSessions /\ i \in GetActiveSessions') =>
              (kind' = "conv" /\ cid' = i /\ conns' = conns + 1)]_vars

\* one session is active, another is only initialized, and the health
\* report counts one
C23_Witness ==
  /\ \E i, j \in Ids :
       /\ sessions[i] = "active" /\ kind = "conv" /\ cid = i
       /\ sessions[j] = "initialized"
  /\ HealthCheck.active_conversations = 1

\* C24: for an id that is not registered the status query and the
\* terminate request answer 404; a terminate request for a registered id
\* answers with the acknowledgement, and after it the status query and the
\* terminate request for that id answer 404.
C24_TerminateThenNotFound ==
  /\ [](\A id \in Ids \cup {UnknownId} :
          ~Registered(id) =>
            /\ StatusResponse(id).code = "404"
            /\ TerminateResponse(id).code = "404")
  /\ [][\A id \in Ids :
         Terminate(id) =>
           /\ TerminateResponse(id).code = "200"
           /\ StatusResponse(id)'.code = "404"
           /\ TerminateResponse(id)'.code = "404"]_vars

\* C25: when forward_from_elevenlabs receives a message whose type none
\* of its branches takes, nothing is sent to the caller, no transcript
\* entry is made, no state of the call changes, and the direction is back
\* at its receive while the call is active, so the messages after it are
\* handled from the state the call had before it arrived.
C25_UnknownIgnored ==
  [][\A ev \in WireAgentEvents :
       (ev.type \in {"vad_score", ""} /\ RAgent(ev) /\ RLog(ev)) =>
         /\ sent' = sent
         /\ callerOut' = callerOut
         /\ agentOut' = agentOut
         /\ messages' = messages /\ saved' = saved
         /\ is_active' = is_active
         /\ is_active => rpc' = "recv"
         /\ UNCHANGED <<svc, conns, kind, hpc, cid, sock, cv, tpc, fpc, hist,
                        ends, dirv>>]_vars

\* a message of an unknown type arrived, then an audio event, and only
\* the audio was sent to the caller
C25_Witness ==
  /\ Len(agentIn) = 2
  /\ agentIn[1].type = "vad_score"
  /\ agentIn[2].type = "audio_event" /\ agentIn[2].data = PayloadHola
  /\ callerOut = <<[type |-> "audio", data |-> PayloadHola, text |-> ""]>>
  /\ rpc = "recv" /\ is_active

\* C26: a malformed message does not end the direction that received it:
\* after a caller message that is not JSON, has no type or is an audio
\* message without data, and after an agent message that is not JSON, has
\* no type or is an audio event without audio, the call is as active as
\* before and, while it is active, the direction is back at its receive.
C26_MalformedSkipped ==
  [][/\ \A m \in MalformedCaller :
          (FMalformed(m) /\ FMalformedLog(m)) =>
            (is_active' = is_active /\ (is_active => fpc' = "recv"))
     /\ (RUnparseable /\ RUnparseableLog) =>
            (is_active' = is_active /\ (is_active => rpc' = "recv"))
     /\ \A ev \in WireAgentEvents :
          ((ev.type = "" \/ (ev.type = "audio_event" /\ ev.data = <<>>))
           /\ RAgent(ev) /\ RLog(ev)) =>
            (is_active' = is_active /\ (is_active => rpc' = "recv"))]_vars

\* the handler is in its finally block after a failure: an error event
\* was sent to the caller, or sending it raised
FailurePath ==
  /\ Relay
  /\ hpc \in {"finally", "finally_exc"}
  /\ hpc = "finally_exc" \/ "error" \in sent

\* C27: when the handler leaves its finally block after a failure, the
\* agent socket is not open, the session of the call is out of the
\* registry and the caller socket is closed, whether or not the error
\* event could be sent to the caller.
C27_FailureTearsDown ==
  [][(FailurePath /\ HandlerExited') =>
       /\ elevenlabs_ws' # "open"
       /\ cid \in Ids => ~Registered(cid)'
       /\ application_state' = "closed" \/ client_state' = "disconnected"]_vars

\* the step is a registry call, or the resumption of one, made for
\* session a
OpOn(a) ==
  \/ \E code \in {DefaultCountry, <<"m", "x">>} :
       nextId = a /\ InitializeBegin(code)
  \/ InitializeEnd(a)
  \/ UpdateSessionStatus(a, "active")
  \/ Terminate(a)

\* C28: a step of initialize_session, update_session_status or end_session
\* made for one session, at whatever point of the other sessions' calls it
\* is taken, leaves every other session's presence, status, agent fields
\* and history records as they were, and does not change whether
\* end_session of another session raises.
C28_SessionsIsolated ==
  [][\A a, b \in Ids :
       (a # b /\ OpOn(a)) =>
         /\ sessions'[b] = sessions[b]
         /\ sessionAgent'[b] = sessionAgent[b]
         /\ cache'[b] = cache[b]
         /\ repo'[b] = repo[b]
         /\ EndSessionRaises(b)' = EndSessionRaises(b)]_vars

\* initialize_session of session 1 is still waiting for its save while
\* session 2 was initialized, activated and ended
C28_Witness ==
  /\ sessions[1] = "initialized" /\ repo[1] = "none"
  /\ sessions[2] = "ended" /\ repo[2] = "open" /\ cache[2] = "endtime"

\* C29: while a session is registered, its agent id, agent name and
\* language are those it was created with: no step changes them, a
\* register_agent for the session's region code included.
C29_AgentFixed ==
  [][\A i \in Ids :
       (Registered(i) /\ Registered(i)') =>
         /\ sessionAgent'[i].agent_id = sessionAgent[i].agent_id
         /\ sessionAgent'[i].agent_name = sessionAgent[i].agent_name
         /\ sessionAgent'[i].language = sessionAgent[i].language]_vars

\* an active session created for the default region keeps the Argentine
\* profile after another configuration was registered for that region
C29_Witness ==
  \E i \in Ids :
    /\ sessions[i] = "active"
    /\ sessionAgent[i].country_code = DefaultCountry
    /\ sessionAgent[i].agent_id = "agent_3601k52aw9jmej0a61svgk2hm0t1"
    /\ sessionAgent[i].language = "es-AR"
    /\ agents[DefaultCountry].agent_id = "agent_custom"
    /\ agents[DefaultCountry].language = "pt-BR"

\* C30: once a read or a send on one of the sockets has raised during a
\* call, no message is forwarded to the agent or to the caller any more,
\* the agent socket is not opened again, and when the handler has exited
\* the bridge is torn down.
C30_LegErrorEndsCall ==
  /\ [][legError =>
          /\ agentOut' = agentOut
          /\ callerOut' = callerOut
          /\ elevenlabs_ws # "open" => elevenlabs_ws' # "open"]_vars
  /\ []((Relay /\ legError /\ HandlerExited) => TornDown)

\* the event the dispatch is to handle for a message: the first that
\* applies of initiation metadata, audio_event member, user_transcript,
\* agent_response, ping, error member
EventOf(msg) ==
  IF msg.type = "conversation_initiation_metadata" THEN "Ready"
  ELSE IF msg.audio_event THEN "AgentAudio"
  ELSE IF msg.type = "user_transcript" THEN "UserTranscript"
  ELSE IF msg.type = "agent_response" THEN "AgentTranscript"
  ELSE IF msg.type = "ping" THEN "Heartbeat"
  ELSE IF msg.error THEN "RemoteError"
  ELSE "Unrecognized"

\* C31: for every type value and every presence of the audio_event and
\* error members, the dispatch handles exactly one event for the message,
\* never two and never none, and it is the event of the message.
C31_OneEventPerMessage ==
  /\ Len(events) = Len(wireIn)
  /\ \A i \in DOMAIN wireIn :
       /\ Cardinality(events[i]) = 1
       /\ events[i] = {EventOf(wireIn[i])}

\* a ping that also has an error member was handled as a heartbeat only,
\* and a message of an unknown type without members as unrecognized
C31_Witness ==
  /\ Len(wireIn) = 2
  /\ wireIn[1] = [type |-> "ping", audio_event |-> FALSE, error |-> TRUE]
  /\ events[1] = {"Heartbeat"}
  /\ wireIn[2] = [type |-> "vad_score", audio_event |-> FALSE,
                  error |-> FALSE]
  /\ events[2] = {"Unrecognized"}

\* C32: on a connection at most one initial silence frame is sent to the
\* agent; none is sent while the agent socket was not opened; and once a
\* relay direction has been started or a caller message has been passed
\* on to the agent, exactly one has been sent.
C32_SilenceFirst ==
  /\ silenceSent <= 1
  /\ elevenlabs_ws = "none" => silenceSent = 0
  /\ (Relay /\ (fpc # "none" \/ rpc # "none")) => silenceSent = 1
  /\ agentOut # <<>> => silenceSent = 1

\* the connect succeeded, the silence was sent, both directions run and a
\* caller audio frame has been passed on to the agent
C32_Witness ==
  /\ elevenlabs_ws = "open" /\ silenceSent = 1
  /\ fpc = "recv" /\ rpc = "recv"
  /\ Len(agentOut) = 1 /\ agentOut[1].type = "user_audio_chunk"

\* C33: when the agent-to-caller direction handles an error report of the
\* agent while the caller socket accepts messages, the caller is sent an
\* error event, is_active and the other tasks are left as they were, and
\* the direction goes back to its loop test (it receives again while the
\* relay is active).
C33_ErrorKeepsRelay ==
  [][\A ev \in WireAgentEvents :
       (ev.type = "error" /\ CanSend /\ RAgent(ev) /\ RLog(ev)) =>
         (/\ sent' = sent \cup {"error"}
          /\ callerOut' = Append(callerOut, [type |-> "error", data |-> <<>>,
                                             text |-> ev.text])
          /\ is_active' = is_active
          /\ rpc' = (IF is_active THEN "recv" ELSE "done")
          /\ fpc' = fpc /\ tpc' = tpc /\ hpc' = hpc
          /\ elevenlabs_ws' = elevenlabs_ws)]_vars

\* an error event reached the caller and the message that followed it was
\* processed and passed on too, the relay still running
C33_Witness ==
  /\ Len(agentIn) = 2 /\ agentIn[1].type = "error"
  /\ agentIn[2].type = "agent_response"
  /\ Len(callerOut) = 2 /\ callerOut[1].type = "error"
  /\ callerOut[2].type = "agent_response"
  /\ rpc = "recv" /\ is_active

\* C34: on /ws the caller socket never has two pending reads (the handler
\* loop and forward_to_elevenlabs), and the effect of a caller message is
\* the same whichever loop reads it: an end_call read by
\* forward_to_elevenlabs ends the handler loop, and an audio or interrupt
\* message read by the handler loop during an active call is sent on the
\* agent socket as forward_to_elevenlabs would send it.
C34_SingleReader ==
  /\ [](kind = "simple" => ~(hpc = "loop" /\ fpc = "recv"))
  /\ [][(kind = "simple" /\ FCaller("end_call")) =>
          hpc' \in {"finally", "finally_exc", "closed"}]_vars
  /\ [][\A f \in CallerFrames :
          (/\ kind = "simple" /\ conversation /\ is_active /\ AgentWritable
           /\ f.type \in {"audio", "interrupt"}
           /\ SimpleCaller(f.type) /\ SimpleLog(f)) =>
            agentOut' = Append(agentOut, AgentMessage(f))]_vars

\* each part of C34 on its own
C34_OneReader == kind = "simple" => ~(hpc = "loop" /\ fpc = "recv")

C34_EndCallEnds ==
  [][(kind = "simple" /\ FCaller("end_call")) =>
      hpc' \in {"finally", "finally_exc", "closed"}]_vars

C34_HandlerForwards ==
  [][\A f \in CallerFrames :
      (/\ kind = "simple" /\ conversation /\ is_active /\ AgentWritable
       /\ f.type \in {"audio", "interrupt"}
       /\ SimpleCaller(f.type) /\ SimpleLog(f)) =>
        agentOut' = Append(agentOut, AgentMessage(f))]_vars

\* the handler bridging session id has not yet run its teardown
Bridging(id) ==
  /\ kind \in {"conv", "simple"} /\ cid = id
  /\ hpc \notin {"none", "returned", "raised"}

\* C35: when a terminate request ends a session whose bridge has still to
\* run its own teardown, and when that teardown then calls end_session
\* for the same session, neither invocation raises; after the first the
\* session is out of the registry and its history is saved as ended, and
\* the second leaves both as they are.
C35_ConcurrentEnd ==
  [][\A id \in Ids :
       /\ (Terminate(id) /\ Bridging(id)) =>
            (/\ ~EndSessionRaises(id)
             /\ sessions'[id] = "absent"
             /\ repo'[id] = "ended" /\ cache'[id] = "none")
       /\ (cid = id /\ Finally(kind = "conv")) =>
            (/\ ~EndSessionRaises(id)
             /\ sessions'[id] = "absent"
             /\ repo'[id] = "ended" /\ cache'[id] = "none")]_vars

\* the connections whose handler holds a conversation on session id
BridgesOf(id) ==
  {c \in Conns : bridges[c].cid = id /\ bridges[c].pc \in {"sleep", "open"}}

\* C36: no two websocket connections hold a bridge on one session id, no
\* session id has two open agent connections, and the teardown of one
\* connection leaves the session of a connection that is still bridging
\* as it was.
C36_OneBridgePerSession ==
  /\ [](\A id \in Ids : Cardinality(BridgesOf(id)) <= 1)
  /\ [][\A c \in Conns :
          ConnTeardown(c) =>
            \A d \in Conns \ {c} :
              d \in BridgesOf(bridges[d].cid) =>
                sessions'[bridges[d].cid] = sessions[bridges[d].cid]]_vars

\* each part of C36 on its own
C36_OneBridge == \A id \in Ids : Cardinality(BridgesOf(id)) <= 1

C36_OneAgentConnection ==
  \A id \in Ids :
    Cardinality({c \in BridgesOf(id) : bridges[c].pc = "open"}) <= 1

C36_TeardownSparesOthers ==
  [][\A c \in Conns :
      ConnTeardown(c) =>
        \A d \in Conns \ {c} :
          d \in BridgesOf(bridges[d].cid) =>
            sessions'[bridges[d].cid] = sessions[bridges[d].cid]]_vars

\* C37: an initialize_session call that raises leaves the registry as it
\* was: the same ids are registered, with the same status and agent, and
\* get_active_sessions returns what it returned before.
C37_FailedInitLeavesNoEntry ==
  [][\A code \in Codes :
       (InitializeCall(code) /\ InitializeRaises(code) # "none") =>
         (/\ sessions' = sessions
          /\ sessionAgent' = sessionAgent
          /\ GetActiveSessions' = GetActiveSessions)]_vars

\* end_conversation(id) has run: the history carries an end time
Ended(id) == cache[id] = "endtime" \/ repo[id] = "ended"

\* C38: no history in the active cache carries an end time; a step that
\* runs end_conversation(id) for a known conversation leaves it out of the
\* cache; and once a conversation has ended, a transcript event neither
\* puts it into the cache nor changes its messages, in memory or saved.
C38_CacheHoldsOpenOnly ==
  /\ [](\A id \in Ids : cache[id] # "endtime")
  /\ [][\A id \in Ids :
          ((Terminate(id) \/ (cid = id /\ Finally(kind = "conv")))
             /\ Registered(id) /\ ConversationFound(id)) =>
            cache'[id] = "none"]_vars
  /\ [][\A id \in Ids :
          Ended(id) =>
            (/\ messages'[id] = messages[id]
             /\ saved'[id] = saved[id]
             /\ cache'[id] # "open")]_vars

\* each part of C38 on its own
C38_NoEndTimeInCache == \A id \in Ids : cache[id] # "endtime"

C38_EndLeavesCache ==
  [][\A id \in Ids :
      ((Terminate(id) \/ (cid = id /\ Finally(kind = "conv")))
         /\ Registered(id) /\ ConversationFound(id)) =>
        cache'[id] = "none"]_vars

C38_EndedIsFrozen ==
  [][\A id \in Ids :
      Ended(id) =>
        (/\ messages'[id] = messages[id]
         /\ saved'[id] = saved[id]
         /\ cache'[id] # "open")]_vars

\* the key each agent profile comes with: the custom profile's own key,
\* the default key for the profiles that have none
ProfileKey(agent_id) ==
  IF agent_id = "agent_custom" THEN "key_custom" ELSE DefaultApiKey

\* C39: for every registered session, the handler create_conversation
\* builds carries the session's agent id together with the credential of
\* the profile that agent id belongs to.
C39_CredentialMatchesAgent ==
  \A id \in Ids :
    Registered(id) =>
      /\ CreateConversation(id).agent_id = sessionAgent[id].agent_id
      /\ CreateConversation(id).api_key = ProfileKey(sessionAgent[id].agent_id)

====
